---------------------------- MODULE Spec2Model ----------------------------
(***************************************************************************)
(* A model of the stock-predictor backend's market-data synchronization    *)
(* layer: the durable store (tables stocks and stock_prices), the          *)
(* incremental refresh (refresh_symbol / _store_history), the public       *)
(* history endpoint, the batch pipeline's store path, the retry helper     *)
(* _with_backoff and the process-wide rate limiter _rate_limit_wait.       *)
(*                                                                         *)
(* Three specifications share the variables:                               *)
(*   Spec         the store and the request handlers, one request at a     *)
(*                time; a handler's upstream traffic is an input (what     *)
(*                each _fetch_history round came back with).               *)
(*   SpecBackoff  _with_backoff, attempt by attempt.                       *)
(*   SpecRate     _rate_limit_wait, statement by statement, for several    *)
(*                threads and a clock.                                     *)
(***************************************************************************)
EXTENDS Integers, Sequences, FiniteSets, Bags, TLC

VARIABLES
    \* ---- the durable store (PostgreSQL) and the calendar
    stocks,          \* table stocks: a set of rows [id, symbol, company_name]
    stock_prices,    \* table stock_prices: a bag of rows
    today,           \* the current UTC calendar day (days since 1970-01-01)
    \* ---- the request being served (Spec)
    pc,              \* "idle" | "handling" | "responded"
    req,             \* the request received
    resp,            \* what the handler returned, and what it did on the way
    conn_held,       \* the request holds a connection of the pool
    \* ---- _with_backoff (SpecBackoff)
    bo_pc, bo_retries, bo_base, bo_i, bo_calls, bo_waits, bo_sleeps,
    bo_outcomes, bo_result,
    \* ---- _rate_limit_wait (SpecRate)
    clock, last_call_ts, yf_lock, rl_pc, rl_now, rl_wake, rl_log,
    \* ---- _fetch_history (SpecFetch)
    fh_pc,           \* "idle" | "strategy" | "in_backoff" | "returned"
    fh_start,        \* the start_date argument
    fh_k,            \* the strategy in turn
    fh_trace,        \* the strategies run so far, in order, with their results
    fh_upstream,     \* upstream calls made so far
    fh_result,       \* the value returned
    \* ---- concurrent refresh_symbol runs (SpecConcurrent)
    cc_pc,           \* per run: "idle" | "read" | "fetch" | "store" | "after" | "done"
    cc_symbol,       \* the symbol the runs refresh
    cc_df,           \* what _fetch_history returns to each of them
    cc_lb,           \* per run: latest_before
    cc_single,       \* the store a single run would have left
    \* ---- the live cache (SpecCache)
    lc_cache,        \* _LIVE_CACHE: per symbol None or Some([ts, data])
    lc_time,         \* time.time(), in seconds
    lc_steps,        \* how many times the time has moved
    lc_puts,         \* how many _set_cached calls were made
    lc_pc,           \* per thread: "idle" | "lookup" | "got"
    lc_symbol,       \* per thread: the symbol of its _get_cached call
    lc_now,          \* per thread: the now its _get_cached call read
    lc_ret,          \* per thread: what its _get_cached call returns
    lc_last_put,     \* per symbol: the last write, None or Some([ts, data])
    \* ---- fetch_stock_data of the pipeline (SpecPipelineFetch)
    pf_pc,           \* "idle" | "alpha" | "alpha_get" | "yahoo" | "in_backoff" | "returned"
    pf_start,        \* start_date
    pf_alpha,        \* ALPHA_HISTORY and ALPHA_VANTAGE_API_KEY are set
    pf_log,          \* the gates passed and the calls made outside _with_backoff
    pf_result,       \* what fetch_stock_data returns
    \* ---- the retry loop of refresh_symbol, step by step (SpecSync)
    rs_pc,           \* "idle" | "loop" | "fetching" | "sleep" | "store" | "returned"
    rs_start,        \* start
    rs_attempt,      \* attempt
    rs_upstream,     \* upstream calls made by the rounds that are over
    rs_rounds,       \* per round that is over: whether it came back with rows
    rs_sleeps,       \* the time.sleep(wait) calls of the loop, in seconds
    rs_result,       \* the reason of the dict returned
    \* ---- the live cache with _CACHE_LOCK taken step by step (SpecCacheLock)
    ck_cache,        \* _LIVE_CACHE
    ck_lock,         \* _CACHE_LOCK: None, or Some(thread) holding it
    ck_time,         \* time.time(), in seconds
    ck_steps,        \* how many times the time has moved
    ck_pc,           \* per thread, where it is in _get_cached or _set_cached
    ck_now,          \* per getter: now
    ck_entry,        \* per getter: entry
    ck_ret,          \* per getter: what _get_cached returns
    ck_data,         \* the data of the _set_cached call under way
    ck_puts,         \* how many _set_cached calls were made
    ck_writes,       \* the (ts, data) written by the _set_cached calls so far
    \* ---- POST /internal/refresh, one symbol at a time (SpecBatch)
    ir_pc,           \* "idle" | "loop" | "responded"
    ir_symbols,      \* symbols, the list of the payload
    ir_i,            \* the position of the for loop in symbols
    ir_results,      \* results
    ir_updated,      \* updated
    ir_failed,       \* failed
    ir_calls,        \* the arguments of the refresh_symbol calls made, in order
    ir_resp,         \* the answer: None, or Some([status, body])
    \* ---- the internal endpoints behind REFRESH_SECRET (SpecInternal)
    in_pc,           \* "idle" | "check" | "body" | "responded" | "running" | "done"
    in_req,          \* the request: endpoint, secret, symbols of the payload
    in_resp,         \* the answer: None, or Some([status, body])
    in_queue,        \* the symbols the refresh loop has still to visit
    in_acc,          \* the accumulators of the refresh loop
    in_log,          \* the store queries and fetches made for the request, in order
    in_tasks         \* background_tasks: the tasks added and not yet started

storeVars == <<stocks, stock_prices, today, pc, req, resp, conn_held>>
boVars    == <<bo_pc, bo_retries, bo_base, bo_i, bo_calls, bo_waits, bo_sleeps,
               bo_outcomes, bo_result>>
rlVars    == <<clock, last_call_ts, yf_lock, rl_pc, rl_now, rl_wake, rl_log>>
fhVars    == <<fh_pc, fh_start, fh_k, fh_trace, fh_upstream, fh_result>>
ccVars    == <<cc_pc, cc_symbol, cc_df, cc_lb, cc_single>>
lcVars    == <<lc_cache, lc_time, lc_steps, lc_puts, lc_pc, lc_symbol, lc_now,
               lc_ret, lc_last_put>>
pfVars    == <<pf_pc, pf_start, pf_alpha, pf_log, pf_result>>
rsVars    == <<rs_pc, rs_start, rs_attempt, rs_upstream, rs_rounds, rs_sleeps,
               rs_result>>
ckVars    == <<ck_cache, ck_lock, ck_time, ck_steps, ck_pc, ck_now, ck_entry,
               ck_ret, ck_data, ck_puts, ck_writes>>
irVars    == <<ir_pc, ir_symbols, ir_i, ir_results, ir_updated, ir_failed,
               ir_calls, ir_resp>>
inVars    == <<in_pc, in_req, in_resp, in_queue, in_acc, in_log, in_tasks>>
vars      == <<storeVars, boVars, rlVars, fhVars, ccVars, lcVars, pfVars,
               rsVars, ckVars,
                    irVars,
                    inVars>>

\* what the actions of one part leave alone
notStoreVars   == <<boVars, rlVars, fhVars, ccVars, lcVars, pfVars, rsVars,
                    ckVars,
                    irVars,
                    inVars>>
notBackoffVars == <<storeVars, rlVars, fhVars, ccVars, lcVars, pfVars, rsVars,
                    ckVars,
                    irVars,
                    inVars>>
notRateVars    == <<storeVars, boVars, fhVars, ccVars, lcVars, pfVars, rsVars,
                    ckVars,
                    irVars,
                    inVars>>
notFetchVars   == <<storeVars, rlVars, ccVars, lcVars, pfVars, rsVars,
                    ckVars,
                    irVars,
                    inVars>>
notConcurrentVars == <<pc, req, resp, conn_held, boVars, rlVars, fhVars, lcVars,
                       pfVars, rsVars, ckVars,
                    irVars,
                    inVars>>
notSyncVars    == <<storeVars, rlVars, ccVars, lcVars, pfVars, ckVars,
                    irVars,
                    inVars>>
notCacheLockVars == <<storeVars, boVars, rlVars, fhVars, ccVars, lcVars, pfVars,
                      rsVars,
                    irVars,
                    inVars>>
notCacheVars   == <<storeVars, boVars, rlVars, fhVars, ccVars, pfVars, rsVars,
                    ckVars,
                    irVars,
                    inVars>>
notBatchVars   == <<today, pc, req, resp, conn_held, boVars, rlVars, fhVars,
                    ccVars, lcVars, pfVars, rsVars, ckVars,
                    inVars>>
notInternalVars == <<today, pc, req, resp, conn_held, boVars, rlVars, fhVars,
                     ccVars, lcVars, pfVars, rsVars, ckVars, irVars>>
notPipelineFetchVars == <<storeVars, rlVars, fhVars, ccVars, lcVars, rsVars,
                    ckVars,
                    irVars,
                    inVars>>

\* An optional value is a sequence of at most one element: None (Python's
\* None, SQL's NULL) is the empty one.
None    == <<>>
Some(x) == <<x>>
Val(o)  == o[1]
NaN     == None     \* a missing Volume in a fetched frame

(***************************************************************************)
(* Bounds of the model.                                                    *)
(***************************************************************************)
MaxDayOffset == 2      \* the calendar runs over FirstDay .. FirstDay + MaxDayOffset
MaxDfRows    == 2      \* rows in one fetched DataFrame

(***************************************************************************)
(* Strings are sequences of characters, so that str.upper() and ILIKE are  *)
(* computed and not assumed.                                               *)
(***************************************************************************)
LowerCase == <<"a","b","c","d","e","f","g","h","i","j","k","l","m",
               "n","o","p","q","r","s","t","u","v","w","x","y","z">>
UpperCase == <<"A","B","C","D","E","F","G","H","I","J","K","L","M",
               "N","O","P","Q","R","S","T","U","V","W","X","Y","Z">>

\* the upper-case letter of each lower-case letter
ToUpper == [c \in {LowerCase[i] : i \in 1..26} |->
               UpperCase[CHOOSE i \in 1..26 : LowerCase[i] = c]]

UpperChar(c) == IF c \in DOMAIN ToUpper THEN ToUpper[c] ELSE c

\* str.upper()
Upper(s) == [i \in 1..Len(s) |-> UpperChar(s[i])]

\* text ILIKE '%term%': a case-insensitive substring test
ILike(text, term) ==
    \E k \in 0..(Len(text) - Len(term)) :
        \A j \in 1..Len(term) : UpperChar(text[k + j]) = UpperChar(term[j])

ACME  == <<"A","C","M","E">>
WIDGE == <<"W","I","D","G","E">>
Symbols == {ACME, WIDGE}

\* The pipeline's display name of a company (the "Security" column).
CompanyName(sym) == IF sym = ACME THEN <<"A","c","m","e"," ","C","o">>
                    ELSE <<"W","i","d","g","e"," ","L","t","d">>

(***************************************************************************)
(* Calendar days are days since 1970-01-01, as datetime.date orders them.  *)
(* 2024-01-01 is day 19723, so 2024-03-01 (a Friday) is 19723 + 31 + 29.   *)
(***************************************************************************)
Date_2024_03_01 == 19723 + 31 + 29
FirstDay == Date_2024_03_01 - 1                \* Thursday 2024-02-29
Days     == FirstDay .. (FirstDay + MaxDayOffset)

\* the (year, month, day) of a day number, in the proleptic Gregorian
\* calendar of datetime.date
CivilFromDays(d) ==
    LET z   == d + 719468
        era == z \div 146097
        doe == z - era * 146097
        yoe == (doe - doe \div 1460 + doe \div 36524 - doe \div 146096) \div 365
        doy == doe - (365 * yoe + yoe \div 4 - yoe \div 100)
        mp  == (5 * doy + 2) \div 153
        m   == IF mp < 10 THEN mp + 3 ELSE mp - 9
    IN [year  |-> yoe + era * 400 + (IF m <= 2 THEN 1 ELSE 0),
        month |-> m,
        day   |-> doy - (153 * mp + 2) \div 5 + 1]

DecimalDigits == <<"0","1","2","3","4","5","6","7","8","9">>

\* "%0<width>d" % n
RECURSIVE ZeroPadded(_, _)
ZeroPadded(n, width) ==
    IF width = 0 THEN <<>>
    ELSE ZeroPadded(n \div 10, width - 1) \o <<DecimalDigits[(n % 10) + 1]>>

\* "%04d-%02d-%02d" % (year, month, day)
IsoFormat(d) ==
    LET c == CivilFromDays(d) IN
    ZeroPadded(c.year, 4) \o <<"-">> \o ZeroPadded(c.month, 2) \o <<"-">>
        \o ZeroPadded(c.day, 2)

\* str(d) of a datetime.date, worked out once for the days of the calendar
IsoFormatOfDay == [d \in Days |-> IsoFormat(d)]
DateStr(d) == IF d \in Days THEN IsoFormatOfDay[d] ELSE IsoFormat(d)

\* date.weekday(): Monday is 0; 1970-01-01 was a Thursday (3)
Weekday(d) == (d + 3) % 7
IsTradingWeekday(d) == Weekday(d) \in 0..4

\* The upstream provider publishes daily bars for market days only.
BarDates == {d \in Days : IsTradingWeekday(d)}

(***************************************************************************)
(* Fetched frames.  A row of a DataFrame is [date, Open, High, Low, Close, *)
(* Volume]; Volume may be NaN.  Two payloads are enough to make two        *)
(* fetches disagree about a day.                                           *)
(***************************************************************************)
Payloads ==
    { [Open |-> 10, High |-> 12, Low |-> 9, Close |-> 11, Volume |-> Some(700)],
      [Open |-> 20, High |-> 25, Low |-> 0, Close |-> 0,  Volume |-> NaN] }

DfRow(d, p) == [date |-> d, Open |-> p.Open, High |-> p.High, Low |-> p.Low,
                Close |-> p.Close, Volume |-> p.Volume]

DfRows == {DfRow(d, p) : d \in BarDates, p \in Payloads}

\* the non-empty frames: 1..MaxDfRows rows in the order of their dates, as
\* the provider's client returns them; a date may repeat
DataFrames ==
    {df \in UNION {[1..n -> DfRows] : n \in 1..MaxDfRows} :
        \A i \in 1..(Len(df) - 1) : df[i].date <= df[i + 1].date}

\* what one _fetch_history call may come back with: None when every strategy
\* failed or came back empty, else the first non-empty frame
FetchResults == {None} \cup {Some(df) : df \in DataFrames}

\* what a fetch hands back: None, or Some(frame) with the frame possibly empty
\* df is None or df.empty
IsEmptyDf(df) == df = None \/ Len(Val(df)) = 0

(***************************************************************************)
(* The store.                                                              *)
(***************************************************************************)
DB == [stocks |-> stocks, stock_prices |-> stock_prices]

\* id SERIAL PRIMARY KEY: a key no other row of the table has.  Rows are
\* never deleted, so the count of rows plus one is fresh.
NextStockId(stocks_tbl) == Cardinality(stocks_tbl) + 1

\* _get_stock_id: SELECT id FROM stocks WHERE symbol=%s
GetStockId(db, symbol) ==
    IF \E s \in db.stocks : s.symbol = symbol
    THEN Some((CHOOSE s \in db.stocks : s.symbol = symbol).id)
    ELSE None

SetMax(S) == CHOOSE x \in S : \A y \in S : y <= x

\* the rows of stock_prices of one stock, as a set
RowsOf(db, stock_id) == {r \in BagToSet(db.stock_prices) : r.stock_id = stock_id}

\* _get_latest_date: SELECT MAX(date) FROM stock_prices WHERE stock_id=%s
GetLatestDate(db, symbol) ==
    LET stock_id == GetStockId(db, symbol) IN
    IF stock_id = None THEN None
    ELSE IF RowsOf(db, Val(stock_id)) = {} THEN None
    ELSE Some(SetMax({r.date : r \in RowsOf(db, Val(stock_id))}))

\* INSERT INTO stocks (symbol, company_name) VALUES ...
\* ON CONFLICT (symbol) DO UPDATE SET company_name=EXCLUDED.company_name
UpsertStock(stocks_tbl, symbol, company_name) ==
    IF \E s \in stocks_tbl : s.symbol = symbol
    THEN {IF s.symbol = symbol
          THEN [s EXCEPT !.company_name = company_name] ELSE s : s \in stocks_tbl}
    ELSE stocks_tbl \cup {[id |-> NextStockId(stocks_tbl), symbol |-> symbol,
                           company_name |-> company_name]}

VolumeOfMissingAsMinusOne(v) == IF v = NaN THEN -1 ELSE Val(v)

\* int(row["Volume"]) if not pd.isna(row["Volume"]) else 0
VolumeOf(v) == IF v = NaN THEN 0 ELSE Val(v)

\* the tuple _store_history builds from one DataFrame row
PriceRow(stock_id, r) ==
    [stock_id |-> stock_id, date |-> r.date, open |-> r.Open, high |-> r.High,
     low |-> r.Low, close |-> r.Close, volume |-> VolumeOf(r.Volume)]

\* the INSERT without its ON CONFLICT clause on a table without the
\* UNIQUE(stock_id, date) constraint: every row is added
InsertPriceNoConflictClause(prices, row) == prices (+) SetToBag({row})

\* ON CONFLICT (stock_id, date) DO UPDATE: the new row replaces the old
InsertPriceUpsert(prices, row) ==
    LET old == {r \in BagToSet(prices) :
                    r.stock_id = row.stock_id /\ r.date = row.date}
        kept == [r \in BagToSet(prices) \ old |-> prices[r]]
    IN kept (+) SetToBag({row})

\* INSERT INTO stock_prices ... ON CONFLICT (stock_id, date) DO NOTHING
InsertPrice(prices, row) ==
    IF \E r \in BagToSet(prices) : r.stock_id = row.stock_id /\ r.date = row.date
    THEN prices
    ELSE prices (+) SetToBag({row})

\* cur.executemany: the rows one after the other
RECURSIVE InsertPrices(_, _, _, _)
InsertPrices(prices, stock_id, df, i) ==
    IF i > Len(df) THEN prices
    ELSE InsertPrices(InsertPrice(prices, PriceRow(stock_id, df[i])),
                      stock_id, df, i + 1)

\* a refresh that deletes the stock's rows before inserting the fetched ones
StoreHistoryReplacing(db, symbol, company_name, df) ==
    IF IsEmptyDf(df) THEN db
    ELSE LET st  == UpsertStock(db.stocks, symbol, company_name)
             sid == (CHOOSE s \in st : s.symbol = symbol).id
             others == {r \in BagToSet(db.stock_prices) : r.stock_id # sid}
         IN [stocks |-> st,
             stock_prices |->
                 InsertPrices([r \in others |-> db.stock_prices[r]], sid,
                              Val(df), 1)]

\* _store_history (and the pipeline's store_stock_data, the same statements)
StoreHistory(db, symbol, company_name, df) ==
    IF IsEmptyDf(df) THEN db
    ELSE LET st  == UpsertStock(db.stocks, symbol, company_name)
             sid == (CHOOSE s \in st : s.symbol = symbol).id
         IN [stocks |-> st,
             stock_prices |-> InsertPrices(db.stock_prices, sid, Val(df), 1)]

(***************************************************************************)
(* Reads.                                                                  *)
(***************************************************************************)
QUERY_LIMIT == 365      \* LIMIT 365 of query_stock_data

\* ORDER BY date DESC over a bag of rows (rows of equal date in some order)
RECURSIVE OrderByDateDesc(_)
OrderByDateDesc(rows) ==
    IF BagToSet(rows) = {} THEN <<>>
    ELSE LET top == CHOOSE r \in BagToSet(rows) :
                        \A q \in BagToSet(rows) : q.date <= r.date
         IN <<top>> \o OrderByDateDesc(rows (-) SetToBag({top}))

Limit(seq, n) == SubSeq(seq, 1, IF Len(seq) < n THEN Len(seq) ELSE n)

\* the rows of one stock, as a bag
PriceBagOf(db, stock_id) ==
    LET S == RowsOf(db, stock_id) IN [r \in S |-> db.stock_prices[r]]

\* one element of the "prices" list of query_stock_data; "date" is
\* r[0].isoformat(), the text str() gives
PriceDict(r) == [date |-> DateStr(r.date), open |-> r.open, high |-> r.high,
                 low |-> r.low, close |-> r.close, volume |-> r.volume]

\* the stocks rows that match WHERE symbol ILIKE %term% OR company_name ILIKE %term%
Matches(db, term) ==
    {s \in db.stocks : ILike(s.symbol, term) \/ ILike(s.company_name, term)}

\* what cur.fetchone() may return for that query: any matching row (the
\* query has no ORDER BY), or None when there is none
FetchOne(db, term) ==
    IF Matches(db, term) = {} THEN {None} ELSE {Some(s) : s \in Matches(db, term)}

\* query_stock_data, given the row fetchone() returned; now is the UTC day
ShownWhateverItsDate(r, now) == TRUE

ShownFromToday(r, now) == r.date >= now

\* AND date <= %s  (today, UTC)
Shown(r, now) == r.date <= now

QueryStockData(db, now, stock) ==
    IF stock = None THEN None
    ELSE LET S    == {r \in RowsOf(db, Val(stock).id) : Shown(r, now)}
             rows == Limit(OrderByDateDesc([r \in S |-> db.stock_prices[r]]),
                           QUERY_LIMIT)
         IN Some([symbol |-> Val(stock).symbol,
                  company_name |-> Val(stock).company_name,
                  prices |-> [i \in 1..Len(rows) |-> PriceDict(rows[i])]])

\* float(x) if x else None
FloatOrNone(x) == IF x = 0 THEN None ELSE Some(x)

\* get_live_info: the most recent row of the symbol, whatever its date
GetLiveInfo(db, symbol) ==
    LET sym  == Upper(symbol)
        sids == {s.id : s \in {t \in db.stocks : t.symbol = sym}}
        S    == {r \in BagToSet(db.stock_prices) : r.stock_id \in sids}
    IN IF S = {} THEN None
       ELSE LET latest == OrderByDateDesc([r \in S |-> db.stock_prices[r]])[1]
            IN Some([currentPrice |-> FloatOrNone(latest.close),
                     dayHigh |-> FloatOrNone(latest.high),
                     dayLow |-> FloatOrNone(latest.low),
                     marketCap |-> None, previousClose |-> None,
                     source |-> "database"])

(***************************************************************************)
(* refresh_symbol.  rounds[k] is what the k-th _fetch_history call of the  *)
(* retry loop comes back with; the handler's result is returned together   *)
(* with the store it leaves and with what it did on the way: how many      *)
(* times it called _fetch_history and the time.sleep calls it made.        *)
(***************************************************************************)
MAX_RETRIES     == 2      \* refresh_symbol(..., max_retries=2)
RETRY_WAIT_STEP == 3      \* wait = (attempt + 1) * 3

\* for attempt in range(max_retries): ...  (attempt counts from 0)
RECURSIVE FetchLoop(_, _, _)
FetchLoop(rounds, attempt, sleeps) ==
    LET df == rounds[attempt + 1] IN
    IF ~IsEmptyDf(df)
    THEN [df |-> df, fetch_calls |-> attempt + 1, sleeps |-> sleeps]
    ELSE IF attempt < MAX_RETRIES - 1
    THEN FetchLoop(rounds, attempt + 1,
                   Append(sleeps, (attempt + 1) * RETRY_WAIT_STEP))
    ELSE [df |-> df, fetch_calls |-> attempt + 1, sleeps |-> sleeps]

\* if latest_before: start = latest_before + 1 day; if start > today: return
\* compared on the watermark itself: a watermark of today is not "up to date"
IsUpToDateComparingWatermark(latest_before, start, now) ==
    latest_before # None /\ Val(latest_before) > now

IsUpToDate(latest_before, start, now) ==
    latest_before # None /\ Val(start) > now

\* str(x) of a date or None
PyStr(x) == IF x = None THEN <<"N","o","n","e">> ELSE DateStr(Val(x))

\* str(x) if x else None
StrOrNone(x) == IF x # None THEN Some(PyStr(x)) ELSE None

FetchFailedWithoutWatermark(latest_before) ==
    [updated |-> FALSE, reason |-> "fetch_failed_after_retries",
     latest |-> None]

\* if df is None or df.empty: return {...}
FetchFailed(latest_before) ==
    [updated |-> FALSE, reason |-> "fetch_failed_after_retries",
     latest |-> StrOrNone(latest_before)]

UpdatedWheneverStored(latest_before, latest_after) == latest_after # None

\* bool(latest_after and (latest_before is None or latest_after > latest_before))
Updated(latest_before, latest_after) ==
    latest_after # None
    /\ (latest_before = None \/ Val(latest_after) > Val(latest_before))

RefreshSymbol(db, now, symbol_in, rounds) ==
    LET symbol        == Upper(symbol_in)
        latest_before == GetLatestDate(db, symbol)
        start         == IF latest_before # None
                         THEN Some(Val(latest_before) + 1) ELSE None
    IN
    IF IsUpToDate(latest_before, start, now)
    THEN [db |-> db, fetch_calls |-> 0, sleeps |-> <<>>, start |-> start,
          stored |-> None,
          result |-> [updated |-> FALSE, reason |-> "up_to_date",
                      latest |-> Some(PyStr(latest_before))]]
    ELSE
    LET f == FetchLoop(rounds, 0, <<>>) IN
    IF IsEmptyDf(f.df)
    THEN [db |-> db, fetch_calls |-> f.fetch_calls, sleeps |-> f.sleeps,
          start |-> start, stored |-> None,
          result |-> FetchFailed(latest_before)]
    ELSE
    LET db2          == StoreHistory(db, symbol, symbol, f.df)
        latest_after == GetLatestDate(db2, symbol)
        updated      == Updated(latest_before, latest_after)
    IN [db |-> db2, fetch_calls |-> f.fetch_calls, sleeps |-> f.sleeps,
        start |-> start, stored |-> f.df,
        result |-> [updated |-> updated,
                    reason |-> IF updated THEN "ok" ELSE "no_new_rows",
                    latest |-> Some(PyStr(latest_after)),
                    rows_added |-> Len(Val(f.df))]]

(***************************************************************************)
(* GET /api/stocks/{term}.  first is the row the first query_stock_data    *)
(* call gets from fetchone(); the second call's row is any row that        *)
(* matches then, so the handler has a set of possible outcomes.            *)
(***************************************************************************)
NoSync == [fetch_calls |-> 0, sleeps |-> <<>>, start |-> None, stored |-> None,
           symbol |-> None, result |-> None]

GetStockBody(db, data) ==
    Some([symbol |-> Val(data).symbol,
          company_name |-> Val(data).company_name,
          prices |-> Val(data).prices,
          live_info |-> GetLiveInfo(db, Val(data).symbol)])

GetStock(db, now, term, refresh, first, rounds) ==
    LET data == QueryStockData(db, now, first) IN
    IF data = None
    THEN {[db |-> db, status |-> 404, body |-> None, sync |-> NoSync]}
    ELSE IF refresh # 0
    THEN LET r == RefreshSymbol(db, now, Val(data).symbol, rounds) IN
         {[db |-> r.db, status |-> 200,
           sync |-> [fetch_calls |-> r.fetch_calls, sleeps |-> r.sleeps,
                     start |-> r.start, stored |-> r.stored,
                     symbol |-> Some(Val(data).symbol),
                     result |-> Some(r.result)],
           body |-> GetStockBody(r.db, QueryStockData(r.db, now, second))] :
          second \in FetchOne(r.db, term)}
    ELSE {[db |-> db, status |-> 200, sync |-> NoSync,
           body |-> GetStockBody(db, data)]}

(***************************************************************************)
(* GET /api/live/{symbol}.                                                 *)
(***************************************************************************)
Live(db, symbol) ==
    LET info == GetLiveInfo(db, Upper(symbol)) IN
    IF info # None
    THEN [status |-> 200,
          body |-> Some([symbol |-> Upper(symbol), live_info |-> Val(info)])]
    ELSE [status |-> 404, body |-> None]

(***************************************************************************)
(* GET /internal/stale.  local_today is datetime.now().date(): the         *)
(* server's local day, not the UTC day.                                    *)
(***************************************************************************)
EPOCH       == 0        \* COALESCE(m.max_date, '1970-01-01')
STALE_LIMIT == 500      \* LIMIT 500

\* the order of text under ORDER BY: by character, upper case before lower
CharRank(c) ==
    IF \E i \in 1..26 : UpperCase[i] = c
    THEN CHOOSE i \in 1..26 : UpperCase[i] = c
    ELSE IF \E i \in 1..26 : LowerCase[i] = c
    THEN 26 + (CHOOSE i \in 1..26 : LowerCase[i] = c)
    ELSE 0

RECURSIVE TextLess(_, _)
TextLess(a, b) ==
    IF Len(b) = 0 THEN FALSE
    ELSE IF Len(a) = 0 THEN TRUE
    ELSE IF CharRank(Head(a)) # CharRank(Head(b))
    THEN CharRank(Head(a)) < CharRank(Head(b))
    ELSE TextLess(Tail(a), Tail(b))

RECURSIVE OrderByText(_)
OrderByText(S) ==
    IF S = {} THEN <<>>
    ELSE LET least == CHOOSE x \in S : \A y \in S \ {x} : TextLess(x, y)
         IN <<least>> \o OrderByText(S \ {least})

\* an inner join in place of LEFT JOIN LATERAL ... COALESCE
StaleSymbolsAmongPriced(db, local_today) ==
    LET stale == {s.symbol : s \in {t \in db.stocks :
                     /\ RowsOf(db, t.id) # {}
                     /\ SetMax({r.date : r \in RowsOf(db, t.id)}) < local_today}}
    IN Limit(OrderByText(stale), STALE_LIMIT)

StaleSymbols(db, local_today) ==
    LET MaxDate(s) == IF RowsOf(db, s.id) = {} THEN None
                      ELSE Some(SetMax({r.date : r \in RowsOf(db, s.id)}))
        Coalesce(o) == IF o = None THEN EPOCH ELSE Val(o)
        stale == {s.symbol : s \in {t \in db.stocks :
                                       Coalesce(MaxDate(t)) < local_today}}
    IN Limit(OrderByText(stale), STALE_LIMIT)

(***************************************************************************)
(* The batch pipeline (data_pipeline/fetch_data.py), one company.          *)
(***************************************************************************)
\* store_stock_data: the statements of _store_history on a connection of its own
StoreStockData(db, symbol, company_name, df) ==
    IF IsEmptyDf(df) THEN db
    ELSE LET st  == UpsertStock(db.stocks, symbol, company_name)
             sid == (CHOOSE s \in st : s.symbol = symbol).id
         IN [stocks |-> st,
             stock_prices |-> InsertPrices(db.stock_prices, sid, Val(df), 1)]

\* the store operations of the pipeline that can fail (the database is
\* unreachable, a statement raises)
PipelineStoreOps == {"get_latest_date", "store_stock_data"}

\* get_latest_date: except Exception: logging.error(...); return None
PipelineGetLatestDate(db, symbol, failing) ==
    IF "get_latest_date" \in failing THEN None ELSE GetLatestDate(db, symbol)

\* store_stock_data with its try/except: a failure rolls the transaction
\* back, is logged, and the function returns
PipelineStore(db, symbol, name, df, failing) ==
    IF "store_stock_data" \in failing /\ ~IsEmptyDf(df) THEN db
    ELSE StoreStockData(db, symbol, name, df)

\* process_company; fetched is what fetch_stock_data(symbol, start_date)
\* returns, failing the store operations that fail during this run.  errors
\* are the failures that happened; the function returns in every case.
ProcessCompany(db, symbol, name, fetched, failing) ==
    LET latest     == PipelineGetLatestDate(db, symbol, failing)
        start_date == IF latest # None THEN Some(Val(latest) + 1) ELSE None
        stores     == ~IsEmptyDf(fetched)
    IN [db |-> IF stores
               THEN PipelineStore(db, symbol, name, fetched, failing) ELSE db,
        start_date |-> start_date,
        errors |-> {op \in failing :
                       op = "get_latest_date" \/ stores},
        outcome |-> "returned"]

(***************************************************************************)
(* Spec: the server takes one request at a time and runs its handler to    *)
(* the end; the pipeline is one more client of the same store.  What the   *)
(* upstream provider and fetchone() do is chosen in the handling step.     *)
(***************************************************************************)
\* the symbols clients ask to refresh: any case
RequestSymbols == {<<"a","c","m","e">>, WIDGE}
\* the search terms of GET /api/stocks/{term}; "e" matches both symbols
Terms == {ACME, <<"e">>}
\* the companies on the pipeline's list
Companies == {ACME}

Requests ==
    {[op |-> "refresh_symbol", symbol |-> s] : s \in RequestSymbols}
    \cup {[op |-> "get_stock", term |-> t, refresh |-> f] :
              t \in Terms, f \in {0, 1}}
    \cup {[op |-> "live", symbol |-> s] : s \in RequestSymbols}
    \cup {[op |-> "stale_symbols"]}
    \cup {[op |-> "process_company", symbol |-> s] : s \in Companies}

NoRequest  == [op |-> "none"]
NoResponse == [op |-> "none"]

\* the inputs of one retry loop: k empty rounds, then f for the rest
RoundsInputs ==
    {[i \in 1..MAX_RETRIES |-> IF i <= k THEN None ELSE f] :
        k \in 0..(MAX_RETRIES - 1), f \in FetchResults}

\* no round is run
NoRounds == [i \in 1..MAX_RETRIES |-> None]

\* the rounds refresh_symbol(symbol_in) can run from db: none when it
\* returns before its retry loop
RoundsFor(db, now, symbol_in) ==
    LET latest_before == GetLatestDate(db, Upper(symbol_in)) IN
    IF IsUpToDate(latest_before,
                  IF latest_before # None
                  THEN Some(Val(latest_before) + 1) ELSE None, now)
    THEN {NoRounds} ELSE RoundsInputs

\* the stocks table at the start: empty, or listing a symbol for which no
\* price row has been stored yet
ListedStocks ==
    {{}, {[id |-> 1, symbol |-> WIDGE, company_name |-> CompanyName(WIDGE)]}}

InitStore ==
    /\ stocks \in ListedStocks
    /\ stock_prices = EmptyBag
    /\ today = FirstDay
    /\ pc = "idle"
    /\ req = NoRequest
    /\ resp = NoResponse
    /\ conn_held = FALSE

\* the endpoints of main.py take conn from Depends(get_db_connection);
\* process_company opens a connection inside each store operation
DependsOnConnection(op) == op # "process_company"

\* get_db_connection up to its yield: the connection is taken from the pool
\* before the endpoint's body runs
Receive(r) ==
    /\ pc = "idle"
    /\ pc' = "handling"
    /\ req' = r
    /\ conn_held' = DependsOnConnection(r.op)
    /\ UNCHANGED <<stocks, stock_prices, today, resp>>
    /\ UNCHANGED notStoreVars

HandleRefreshSymbol ==
    /\ pc = "handling" /\ req.op = "refresh_symbol"
    /\ \E rounds \in RoundsFor(DB, today, req.symbol) :
         LET r == RefreshSymbol(DB, today, req.symbol, rounds) IN
         /\ stocks' = r.db.stocks
         /\ stock_prices' = r.db.stock_prices
         /\ resp' = [op |-> "refresh_symbol", result |-> r.result,
                     fetch_calls |-> r.fetch_calls, sleeps |-> r.sleeps,
                     start |-> r.start, stored |-> r.stored]
    /\ pc' = "responded"
    /\ UNCHANGED <<today, req, conn_held>>
    /\ UNCHANGED notStoreVars

HandleGetStock ==
    /\ pc = "handling" /\ req.op = "get_stock"
    /\ \E first \in FetchOne(DB, req.term) :
       \E rounds \in IF first # None /\ req.refresh # 0
                     THEN RoundsFor(DB, today, Val(first).symbol)
                     ELSE {NoRounds} :
       \E g \in GetStock(DB, today, req.term, req.refresh, first, rounds) :
         /\ stocks' = g.db.stocks
         /\ stock_prices' = g.db.stock_prices
         /\ resp' = [op |-> "get_stock", status |-> g.status,
                     body |-> g.body, sync |-> g.sync]
    /\ pc' = "responded"
    /\ UNCHANGED <<today, req, conn_held>>
    /\ UNCHANGED notStoreVars

HandleLive ==
    /\ pc = "handling" /\ req.op = "live"
    /\ LET l == Live(DB, req.symbol) IN
       resp' = [op |-> "live", status |-> l.status, body |-> l.body]
    /\ pc' = "responded"
    /\ UNCHANGED <<stocks, stock_prices, today, req, conn_held>>
    /\ UNCHANGED notStoreVars

HandleStaleSymbols ==
    /\ pc = "handling" /\ req.op = "stale_symbols"
    /\ \E local_today \in {today - 1, today, today + 1} :
         resp' = [op |-> "stale_symbols", local_today |-> local_today,
                  symbols |-> StaleSymbols(DB, local_today)]
    /\ pc' = "responded"
    /\ UNCHANGED <<stocks, stock_prices, today, req, conn_held>>
    /\ UNCHANGED notStoreVars

HandleProcessCompany ==
    /\ pc = "handling" /\ req.op = "process_company"
    /\ \E fetched \in FetchResults, failing \in SUBSET PipelineStoreOps :
         LET r == ProcessCompany(DB, req.symbol, CompanyName(req.symbol),
                                 fetched, failing) IN
         /\ stocks' = r.db.stocks
         /\ stock_prices' = r.db.stock_prices
         /\ resp' = [op |-> "process_company", start_date |-> r.start_date,
                     errors |-> r.errors, outcome |-> r.outcome]
    /\ pc' = "responded"
    /\ UNCHANGED <<today, req, conn_held>>
    /\ UNCHANGED notStoreVars

\* the response is delivered
\* the response is sent and get_db_connection resumes after its yield: the
\* with block returns the connection to the pool
Finish ==
    /\ pc = "responded"
    /\ pc' = "idle"
    /\ req' = NoRequest
    /\ resp' = NoResponse
    /\ conn_held' = FALSE
    /\ UNCHANGED <<stocks, stock_prices, today>>
    /\ UNCHANGED notStoreVars

\* midnight UTC passes
AdvanceDay ==
    /\ pc = "idle"
    /\ today < FirstDay + MaxDayOffset
    /\ today' = today + 1
    /\ UNCHANGED <<stocks, stock_prices, pc, req, resp, conn_held>>
    /\ UNCHANGED notStoreVars

(***************************************************************************)
(* _with_backoff(fn, retries, base), one step per statement.  Durations    *)
(* are in quarter seconds.  fn's outcome on each attempt is an input: it   *)
(* returns a value or raises an Exception.                                 *)
(***************************************************************************)
MaxBackoffRetries == 5

BASE_MAIN     == 4      \* base=1.0
BASE_PIPELINE == 3      \* base=0.75
Bases == {BASE_MAIN, BASE_PIPELINE}

\* what fn may return
FnValues == {"rows", "no rows"}

\* how one call of fn ended
FnRaised      == [kind |-> "raised"]
FnReturned(v) == [kind |-> "returned", value |-> v]

RECURSIVE Pow2(_)
Pow2(i) == IF i = 0 THEN 1 ELSE 2 * Pow2(i - 1)

BackoffWaitLinear(base, i) == base * (i + 1)

\* wait = base * (2 ** i)
BackoffWait(base, i) == base * Pow2(i)

IsFinalAttemptOneEarly(i, retries) == i = retries - 2

\* if i == retries - 1
IsFinalAttempt(i, retries) == i = retries - 1

InitBackoff ==
    /\ bo_pc = "idle" /\ bo_retries = 0 /\ bo_base = 0 /\ bo_i = 0
    /\ bo_calls = 0 /\ bo_waits = 0 /\ bo_sleeps = <<>>
    /\ bo_outcomes = <<>> /\ bo_result = None

\* the call _with_backoff(fn, retries, base); range(0) runs no iteration and
\* the function falls off its end, returning None
BoStart(retries, base) ==
    /\ bo_pc = "idle"
    /\ bo_retries' = retries /\ bo_base' = base /\ bo_i' = 0
    /\ bo_pc' = IF retries > 0 THEN "rate_limit" ELSE "returned"
    /\ UNCHANGED <<bo_calls, bo_waits, bo_sleeps, bo_outcomes, bo_result>>
    /\ UNCHANGED notBackoffVars

\* _rate_limit_wait()
BoRateLimitWait ==
    /\ bo_pc = "rate_limit"
    /\ bo_waits' = bo_waits + 1
    /\ bo_pc' = "call"
    /\ UNCHANGED <<bo_retries, bo_base, bo_i, bo_calls, bo_sleeps,
                   bo_outcomes, bo_result>>
    /\ UNCHANGED notBackoffVars

\* return fn(), fn returning v
BoCallReturns(v) ==
    /\ bo_pc = "call"
    /\ bo_calls' = bo_calls + 1
    /\ bo_outcomes' = Append(bo_outcomes, FnReturned(v))
    /\ bo_result' = Some(v)
    /\ bo_pc' = "returned"
    /\ UNCHANGED <<bo_retries, bo_base, bo_i, bo_waits, bo_sleeps>>
    /\ UNCHANGED notBackoffVars

\* fn() raises an Exception: the except clause
BoCallRaises ==
    /\ bo_pc = "call"
    /\ bo_calls' = bo_calls + 1
    /\ bo_outcomes' = Append(bo_outcomes, FnRaised)
    /\ IF IsFinalAttempt(bo_i, bo_retries)
       THEN /\ bo_result' = None
            /\ bo_pc' = "returned"
            /\ UNCHANGED bo_sleeps
       ELSE /\ bo_sleeps' = Append(bo_sleeps, BackoffWait(bo_base, bo_i))
            /\ bo_pc' = "sleep"
            /\ UNCHANGED bo_result
    /\ UNCHANGED <<bo_retries, bo_base, bo_i, bo_waits>>
    /\ UNCHANGED notBackoffVars

\* time.sleep(wait) is over: the next iteration of range(retries), or the
\* end of the function
BoSleepDone ==
    /\ bo_pc = "sleep"
    /\ bo_i' = bo_i + 1
    /\ bo_pc' = IF bo_i + 1 < bo_retries THEN "rate_limit" ELSE "returned"
    /\ UNCHANGED <<bo_retries, bo_base, bo_calls, bo_waits, bo_sleeps,
                   bo_outcomes, bo_result>>
    /\ UNCHANGED notBackoffVars

\* the caller has the result
BoFinish ==
    /\ bo_pc = "returned"
    /\ bo_pc' = "idle" /\ bo_retries' = 0 /\ bo_base' = 0 /\ bo_i' = 0
    /\ bo_calls' = 0 /\ bo_waits' = 0 /\ bo_sleeps' = <<>>
    /\ bo_outcomes' = <<>> /\ bo_result' = None
    /\ UNCHANGED notBackoffVars

(***************************************************************************)
(* _fetch_history(symbol, start_date), one step per strategy; each         *)
(* strategy is run by safe(_with_backoff(...)), whose steps are the        *)
(* actions above.  An upstream call returns a frame with rows, returns an  *)
(* empty frame, or raises.                                                 *)
(***************************************************************************)
DEFAULT_RETRIES == 4    \* _with_backoff(fn, retries=4, base=1.0)

Strategies == <<"range", "5d", "1mo", "download">>

\* df is not None and not df.empty
HasRows(df) == df # None /\ Val(df) = "rows"

FirstStrategyAlwaysRange(start_date) == 1

\* if start_date: the range strategy is tried only with a start date
FirstStrategy(start_date) == IF start_date # None THEN 1 ELSE 2

InitFetch ==
    /\ fh_pc = "idle" /\ fh_start = None /\ fh_k = 0
    /\ fh_trace = <<>> /\ fh_upstream = 0 /\ fh_result = None

\* the call _fetch_history(symbol, start_date)
FhStart(start_date) ==
    /\ fh_pc = "idle"
    /\ fh_pc' = "strategy"
    /\ fh_start' = start_date
    /\ fh_k' = FirstStrategy(start_date)
    /\ UNCHANGED <<fh_trace, fh_upstream, fh_result>>
    /\ UNCHANGED <<boVars, notFetchVars>>

\* df = safe(lambda: ...): _with_backoff is entered for strategy fh_k
FhInvoke ==
    /\ fh_pc = "strategy"
    /\ bo_pc = "idle"
    /\ fh_pc' = "in_backoff"
    /\ bo_retries' = DEFAULT_RETRIES /\ bo_base' = BASE_MAIN /\ bo_i' = 0
    /\ bo_pc' = "rate_limit"
    /\ UNCHANGED <<bo_calls, bo_waits, bo_sleeps, bo_outcomes, bo_result>>
    /\ UNCHANGED <<fh_start, fh_k, fh_trace, fh_upstream, fh_result>>
    /\ UNCHANGED notFetchVars

\* _with_backoff has returned df: return it if it has rows, else go on to
\* the next strategy, and return None after the last
FhCollect ==
    /\ fh_pc = "in_backoff"
    /\ bo_pc = "returned"
    /\ fh_upstream' = fh_upstream + bo_calls
    /\ fh_trace' = Append(fh_trace, [strategy |-> Strategies[fh_k],
                                     df |-> bo_result, calls |-> bo_calls,
                                     waits |-> bo_waits])
    /\ IF HasRows(bo_result)
       THEN fh_pc' = "returned" /\ fh_result' = bo_result /\ UNCHANGED fh_k
       ELSE IF fh_k < Len(Strategies)
       THEN fh_pc' = "strategy" /\ fh_k' = fh_k + 1 /\ UNCHANGED fh_result
       ELSE fh_pc' = "returned" /\ fh_result' = None /\ UNCHANGED fh_k
    /\ bo_pc' = "idle" /\ bo_retries' = 0 /\ bo_base' = 0 /\ bo_i' = 0
    /\ bo_calls' = 0 /\ bo_waits' = 0 /\ bo_sleeps' = <<>>
    /\ bo_outcomes' = <<>> /\ bo_result' = None
    /\ UNCHANGED fh_start
    /\ UNCHANGED notFetchVars

\* refresh_symbol has the result
FhFinish ==
    /\ fh_pc = "returned"
    /\ fh_pc' = "idle" /\ fh_start' = None /\ fh_k' = 0
    /\ fh_trace' = <<>> /\ fh_upstream' = 0 /\ fh_result' = None
    /\ UNCHANGED <<boVars, notFetchVars>>

(***************************************************************************)
(* The retry loop of refresh_symbol, one step per statement, around        *)
(* _fetch_history and _with_backoff as above.                              *)
(***************************************************************************)
RangeHasOneMore(i) == i <= MAX_RETRIES

\* for attempt in range(max_retries): i is in the range
RangeHas(i) == i < MAX_RETRIES

InitSync ==
    /\ rs_pc = "idle" /\ rs_start = None /\ rs_attempt = 0
    /\ rs_upstream = 0 /\ rs_rounds = <<>> /\ rs_sleeps = <<>>
    /\ rs_result = None

\* refresh_symbol up to its retry loop: start is None without a watermark,
\* the day after the watermark otherwise, and the call returns up_to_date
\* when start > today
RsBegin(start, now) ==
    /\ rs_pc = "idle"
    /\ rs_start' = start
    /\ IF start # None /\ Val(start) > now
       THEN rs_pc' = "returned" /\ rs_result' = Some("up_to_date")
       ELSE /\ rs_pc' = (IF RangeHas(0) THEN "loop" ELSE "failed")
            /\ UNCHANGED rs_result
    /\ UNCHANGED <<rs_attempt, rs_upstream, rs_rounds, rs_sleeps>>
    /\ UNCHANGED <<boVars, fhVars, notSyncVars>>

\* df = _fetch_history(symbol, start) is called
RsCallFetch ==
    /\ rs_pc = "loop"
    /\ fh_pc = "idle"
    /\ rs_pc' = "fetching"
    /\ fh_pc' = "strategy"
    /\ fh_start' = rs_start
    /\ fh_k' = FirstStrategy(rs_start)
    /\ UNCHANGED <<fh_trace, fh_upstream, fh_result>>
    /\ UNCHANGED <<rs_start, rs_attempt, rs_upstream, rs_rounds, rs_sleeps,
                   rs_result>>
    /\ UNCHANGED <<boVars, notSyncVars>>

\* _fetch_history has returned df: break if it has rows; otherwise sleep
\* (attempt + 1) * 3 if attempt < max_retries - 1, and go on with the range
RsCollect ==
    /\ rs_pc = "fetching"
    /\ fh_pc = "returned"
    /\ rs_upstream' = rs_upstream + fh_upstream
    /\ rs_rounds' = Append(rs_rounds, HasRows(fh_result))
    /\ IF HasRows(fh_result)
       THEN rs_pc' = "store" /\ UNCHANGED <<rs_attempt, rs_sleeps>>
       ELSE IF rs_attempt < MAX_RETRIES - 1
       THEN /\ rs_pc' = "sleep"
            /\ rs_sleeps' = Append(rs_sleeps, (rs_attempt + 1) * RETRY_WAIT_STEP)
            /\ UNCHANGED rs_attempt
       ELSE /\ rs_pc' = (IF RangeHas(rs_attempt + 1) THEN "loop" ELSE "failed")
            /\ rs_attempt' = rs_attempt + 1
            /\ UNCHANGED rs_sleeps
    /\ fh_pc' = "idle" /\ fh_start' = None /\ fh_k' = 0
    /\ fh_trace' = <<>> /\ fh_upstream' = 0 /\ fh_result' = None
    /\ UNCHANGED <<rs_start, rs_result>>
    /\ UNCHANGED <<boVars, notSyncVars>>

\* time.sleep(wait) is over: the next attempt of the range, if any
RsSleepDone ==
    /\ rs_pc = "sleep"
    /\ rs_attempt' = rs_attempt + 1
    /\ rs_pc' = (IF RangeHas(rs_attempt + 1) THEN "loop" ELSE "failed")
    /\ UNCHANGED <<rs_start, rs_upstream, rs_rounds, rs_sleeps, rs_result>>
    /\ UNCHANGED <<boVars, fhVars, notSyncVars>>

\* if df is None or df.empty: return {... "fetch_failed_after_retries" ...}
RsFailed ==
    /\ rs_pc = "failed"
    /\ rs_pc' = "returned"
    /\ rs_result' = Some("fetch_failed_after_retries")
    /\ UNCHANGED <<rs_start, rs_attempt, rs_upstream, rs_rounds, rs_sleeps>>
    /\ UNCHANGED <<boVars, fhVars, notSyncVars>>

\* _store_history(...) and the dict built after it
RsStore ==
    /\ rs_pc = "store"
    /\ rs_pc' = "returned"
    /\ rs_result' = Some("stored")
    /\ UNCHANGED <<rs_start, rs_attempt, rs_upstream, rs_rounds, rs_sleeps>>
    /\ UNCHANGED <<boVars, fhVars, notSyncVars>>

\* the caller has the dict
RsFinish ==
    /\ rs_pc = "returned"
    /\ rs_pc' = "idle" /\ rs_start' = None /\ rs_attempt' = 0
    /\ rs_upstream' = 0 /\ rs_rounds' = <<>> /\ rs_sleeps' = <<>>
    /\ rs_result' = None
    /\ UNCHANGED <<boVars, fhVars, notSyncVars>>

(***************************************************************************)
(* _rate_limit_wait() called from several threads, one step per statement. *)
(* clock is time.time() in quarter seconds; it does not go backwards, and  *)
(* time.sleep(d) returns no earlier than d after it was called.            *)
(***************************************************************************)
MaxThreads == 2
MaxCalls   == 3
MaxClock   == 9

RATE_LIMIT_SEC == 4     \* "1.0"

Threads == 1..MaxThreads

LockFreeUnguarded(lock) == TRUE

\* with _YF_LOCK: the lock is taken when no thread holds it
LockFree(lock) == lock = None

InitRate ==
    /\ clock = RATE_LIMIT_SEC
    /\ last_call_ts = 0
    /\ yf_lock = None
    /\ rl_pc = [t \in Threads |-> "idle"]
    /\ rl_now = [t \in Threads |-> 0]
    /\ rl_wake = [t \in Threads |-> 0]
    /\ rl_log = <<>>

CallsStarted == Len(rl_log) + Cardinality({t \in Threads : rl_pc[t] # "idle"})

\* thread t calls _rate_limit_wait()
RlCall(t) ==
    /\ rl_pc[t] = "idle"
    /\ CallsStarted < MaxCalls
    /\ rl_pc' = [rl_pc EXCEPT ![t] = "acquire"]
    /\ UNCHANGED <<clock, last_call_ts, yf_lock, rl_now, rl_wake, rl_log>>
    /\ UNCHANGED notRateVars

\* with _YF_LOCK:
RlAcquire(t) ==
    /\ rl_pc[t] = "acquire"
    /\ LockFree(yf_lock)
    /\ yf_lock' = Some(t)
    /\ rl_pc' = [rl_pc EXCEPT ![t] = "locked"]
    /\ UNCHANGED <<clock, last_call_ts, rl_now, rl_wake, rl_log>>
    /\ UNCHANGED notRateVars

\* now = time.time(); delay = _last_call_ts + RATE_LIMIT_SEC - now;
\* if delay > 0: time.sleep(delay) is entered
RlReadNow(t) ==
    /\ rl_pc[t] = "locked"
    /\ rl_now' = [rl_now EXCEPT ![t] = clock]
    /\ LET delay == last_call_ts + RATE_LIMIT_SEC - clock IN
       IF delay > 0
       THEN /\ rl_wake' = [rl_wake EXCEPT ![t] = clock + delay]
            /\ rl_pc' = [rl_pc EXCEPT ![t] = "sleeping"]
       ELSE /\ rl_pc' = [rl_pc EXCEPT ![t] = "stamp"]
            /\ UNCHANGED rl_wake
    /\ UNCHANGED <<clock, last_call_ts, yf_lock, rl_log>>
    /\ UNCHANGED notRateVars

\* time.sleep(delay) returns
RlWake(t) ==
    /\ rl_pc[t] = "sleeping"
    /\ clock >= rl_wake[t]
    /\ rl_pc' = [rl_pc EXCEPT ![t] = "stamp"]
    /\ UNCHANGED <<clock, last_call_ts, yf_lock, rl_now, rl_wake, rl_log>>
    /\ UNCHANGED notRateVars

\* _last_call_ts = time.time()
RlStamp(t) ==
    /\ rl_pc[t] = "stamp"
    /\ last_call_ts' = clock
    /\ rl_log' = Append(rl_log, clock)
    /\ rl_pc' = [rl_pc EXCEPT ![t] = "release"]
    /\ UNCHANGED <<clock, yf_lock, rl_now, rl_wake>>
    /\ UNCHANGED notRateVars

\* the with block is left and _rate_limit_wait returns
RlRelease(t) ==
    /\ rl_pc[t] = "release"
    /\ yf_lock' = None
    /\ rl_pc' = [rl_pc EXCEPT ![t] = "idle"]
    /\ UNCHANGED <<clock, last_call_ts, rl_now, rl_wake, rl_log>>
    /\ UNCHANGED notRateVars

\* a quarter second passes
Tick ==
    /\ clock < RATE_LIMIT_SEC + MaxClock
    /\ clock' = clock + 1
    /\ UNCHANGED <<last_call_ts, yf_lock, rl_pc, rl_now, rl_wake, rl_log>>
    /\ UNCHANGED notRateVars

(***************************************************************************)
(* _with_backoff with its _rate_limit_wait taken step by step: the thread  *)
(* that runs _with_backoff enters _rate_limit_wait as one of the threads   *)
(* above, while the other threads call _rate_limit_wait on their own.      *)
(***************************************************************************)
\* the thread that runs _with_backoff, and the threads at the gate: it and
\* one that calls _rate_limit_wait on its own
BackoffThread == 1
GateThreads   == {BackoffThread, 2}

\* _rate_limit_wait() is called from _with_backoff
BgEnterWait ==
    /\ bo_pc = "rate_limit"
    /\ rl_pc[BackoffThread] = "idle"
    /\ bo_pc' = "in_wait"
    /\ bo_waits' = bo_waits + 1
    /\ rl_pc' = [rl_pc EXCEPT ![BackoffThread] = "acquire"]
    /\ UNCHANGED <<bo_retries, bo_base, bo_i, bo_calls, bo_sleeps,
                   bo_outcomes, bo_result>>
    /\ UNCHANGED <<clock, last_call_ts, yf_lock, rl_now, rl_wake, rl_log>>
    /\ UNCHANGED <<storeVars, fhVars, ccVars, lcVars, pfVars, rsVars, ckVars,
                   irVars, inVars>>

\* _rate_limit_wait() has returned to _with_backoff
BgLeaveWait ==
    /\ bo_pc = "in_wait"
    /\ rl_pc[BackoffThread] = "idle"
    /\ bo_pc' = "call"
    /\ UNCHANGED <<bo_retries, bo_base, bo_i, bo_calls, bo_waits, bo_sleeps,
                   bo_outcomes, bo_result>>
    /\ UNCHANGED notBackoffVars

(***************************************************************************)
(* Several refresh_symbol runs for one symbol at the same time, each on a  *)
(* connection of its own.  A run's steps are its reads of the store, its   *)
(* retry loop and its _store_history transaction; the transactions of two  *)
(* runs do not overlap, because the second one's INSERT INTO stocks ... ON  *)
(* CONFLICT (symbol) waits for the first to commit.  Upstream gives every  *)
(* run the same frame.                                                     *)
(***************************************************************************)
MaxRuns == 2

Runs == 1..MaxRuns

InitConcurrent ==
    /\ cc_pc = [p \in Runs |-> "idle"]
    /\ cc_symbol = None
    /\ cc_df = None
    /\ cc_lb = [p \in Runs |-> None]
    /\ cc_single = None

\* the runs are requested on day d, for symbol, with the store as an earlier
\* refresh that fetched df0 left it, and with df the frame upstream has
CcBegin ==
    /\ cc_symbol = None
    /\ \A p \in Runs : cc_pc[p] = "idle"
    /\ \E d \in Days, symbol \in Symbols, df0 \in FetchResults,
          df \in FetchResults :
          LET db0 == StoreHistory(DB, symbol, symbol, df0) IN
          /\ stocks' = db0.stocks
          /\ stock_prices' = db0.stock_prices
          /\ cc_single' = Some(RefreshSymbol(db0, d, symbol,
                                             [i \in 1..MAX_RETRIES |-> df]).db)
          /\ today' = d
          /\ cc_symbol' = Some(symbol)
          /\ cc_df' = df
    /\ cc_pc' = [p \in Runs |-> "read"]
    /\ UNCHANGED cc_lb
    /\ UNCHANGED notConcurrentVars

\* latest_before = _get_latest_date(symbol, conn); if start > today: return
CcReadWatermark(p) ==
    /\ cc_pc[p] = "read"
    /\ LET latest_before == GetLatestDate(DB, Val(cc_symbol))
           start == IF latest_before # None
                    THEN Some(Val(latest_before) + 1) ELSE None
       IN /\ cc_lb' = [cc_lb EXCEPT ![p] = latest_before]
          /\ cc_pc' = [cc_pc EXCEPT ![p] =
                          IF IsUpToDate(latest_before, start, today)
                          THEN "done" ELSE "fetch"]
    /\ UNCHANGED <<stocks, stock_prices, today, cc_symbol, cc_df, cc_single>>
    /\ UNCHANGED notConcurrentVars

\* the retry loop; if df is None or df.empty: return
CcFetch(p) ==
    /\ cc_pc[p] = "fetch"
    /\ cc_pc' = [cc_pc EXCEPT ![p] = IF IsEmptyDf(cc_df) THEN "done" ELSE "store"]
    /\ UNCHANGED <<stocks, stock_prices, today, cc_symbol, cc_df, cc_lb,
                   cc_single>>
    /\ UNCHANGED notConcurrentVars

\* _store_history(symbol, symbol, df, conn)
CcStore(p) ==
    /\ cc_pc[p] = "store"
    /\ LET db2 == StoreHistory(DB, Val(cc_symbol), Val(cc_symbol), cc_df) IN
       /\ stocks' = db2.stocks
       /\ stock_prices' = db2.stock_prices
    /\ cc_pc' = [cc_pc EXCEPT ![p] = "after"]
    /\ UNCHANGED <<today, cc_symbol, cc_df, cc_lb, cc_single>>
    /\ UNCHANGED notConcurrentVars

\* latest_after = _get_latest_date(symbol, conn); return
CcReadAfter(p) ==
    /\ cc_pc[p] = "after"
    /\ cc_pc' = [cc_pc EXCEPT ![p] = "done"]
    /\ UNCHANGED <<stocks, stock_prices, today, cc_symbol, cc_df, cc_lb,
                   cc_single>>
    /\ UNCHANGED notConcurrentVars

(***************************************************************************)
(* fetch_stock_data(symbol, start_date) of the pipeline: Alpha Vantage     *)
(* first, when it is switched on, then Yahoo through the pipeline's        *)
(* _with_backoff, whose steps are the backoff actions above.               *)
(***************************************************************************)
\* how requests.get and the reading of its answer end
AlphaOutcomes == {"rows", "no rows", "raised"}

InitPipelineFetch ==
    /\ pf_pc = "idle" /\ pf_start = None /\ pf_alpha = FALSE
    /\ pf_log = <<>> /\ pf_result = None

\* the call fetch_stock_data(symbol, start_date), under one setting of
\* ALPHA_HISTORY and ALPHA_VANTAGE_API_KEY
PfStart(start_date, alpha) ==
    /\ pf_pc = "idle"
    /\ pf_pc' = "alpha"
    /\ pf_start' = start_date
    /\ pf_alpha' = alpha
    /\ UNCHANGED <<pf_log, pf_result>>
    /\ UNCHANGED <<boVars, notPipelineFetchVars>>

\* fetch_stock_data_alpha: if not ALPHA_HISTORY or not ALPHA_VANTAGE_API_KEY:
\* return None
PfAlphaOff ==
    /\ pf_pc = "alpha" /\ ~pf_alpha
    /\ pf_pc' = "yahoo"
    /\ UNCHANGED <<pf_start, pf_alpha, pf_log, pf_result>>
    /\ UNCHANGED <<boVars, notPipelineFetchVars>>

\* fetch_stock_data_alpha: _av_wait()
PfAvWait ==
    /\ pf_pc = "alpha" /\ pf_alpha
    /\ pf_pc' = "alpha_get"
    /\ pf_log' = Append(pf_log, "_av_wait")
    /\ UNCHANGED <<pf_start, pf_alpha, pf_result>>
    /\ UNCHANGED <<boVars, notPipelineFetchVars>>

\* fetch_stock_data_alpha: requests.get(...) and what is made of its answer;
\* fetch_stock_data returns the frame if it has rows and goes on to Yahoo
\* otherwise
PfAlphaGet(outcome) ==
    /\ pf_pc = "alpha_get"
    /\ pf_log' = Append(pf_log, "requests.get")
    /\ IF outcome = "rows"
       THEN pf_pc' = "returned" /\ pf_result' = Some("rows")
       ELSE pf_pc' = "yahoo" /\ UNCHANGED pf_result
    /\ UNCHANGED <<pf_start, pf_alpha>>
    /\ UNCHANGED <<boVars, notPipelineFetchVars>>

\* data = _with_backoff(lambda: ticker.history(...))
PfInvoke ==
    /\ pf_pc = "yahoo"
    /\ bo_pc = "idle"
    /\ pf_pc' = "in_backoff"
    /\ bo_retries' = DEFAULT_RETRIES /\ bo_base' = BASE_PIPELINE /\ bo_i' = 0
    /\ bo_pc' = "rate_limit"
    /\ UNCHANGED <<bo_calls, bo_waits, bo_sleeps, bo_outcomes, bo_result>>
    /\ UNCHANGED <<pf_start, pf_alpha, pf_log, pf_result>>
    /\ UNCHANGED notPipelineFetchVars

\* if data is None or data.empty: return None; return data
PfCollect ==
    /\ pf_pc = "in_backoff"
    /\ bo_pc = "returned"
    /\ pf_pc' = "returned"
    /\ pf_result' = IF HasRows(bo_result) THEN bo_result ELSE None
    /\ pf_log' = Append(pf_log, IF pf_start # None THEN "history range"
                                ELSE "history 1y")
    /\ bo_pc' = "idle" /\ bo_retries' = 0 /\ bo_base' = 0 /\ bo_i' = 0
    /\ bo_calls' = 0 /\ bo_waits' = 0 /\ bo_sleeps' = <<>>
    /\ bo_outcomes' = <<>> /\ bo_result' = None
    /\ UNCHANGED <<pf_start, pf_alpha>>
    /\ UNCHANGED notPipelineFetchVars

\* process_company has the result
PfFinish ==
    /\ pf_pc = "returned"
    /\ pf_pc' = "idle" /\ pf_start' = None /\ pf_alpha' = FALSE
    /\ pf_log' = <<>> /\ pf_result' = None
    /\ UNCHANGED <<boVars, notPipelineFetchVars>>

(***************************************************************************)
(* The live cache: _get_cached and _set_cached called from several         *)
(* threads.  _get_cached reads the time before it takes _CACHE_LOCK; what  *)
(* it does under the lock is one step, and so is _set_cached.  Time is in  *)
(* seconds and moves in steps of 1 or LIVE_TTL_SEC.                        *)
(***************************************************************************)
MaxTimeSteps == 2
MaxPuts      == 2
MaxGetters   == 1

\* the threads that call _get_cached
Getters == 1..MaxGetters

LIVE_TTL_SEC == 60      \* "60"

TimeSteps == {1, LIVE_TTL_SEC}

\* the data dicts that are cached
Quotes == {"quote a", "quote b"}

FreshStrictly(now, ts) == now - ts < LIVE_TTL_SEC

\* if now - ts <= LIVE_TTL_SEC
Fresh(now, ts) == now - ts <= LIVE_TTL_SEC

PopNothing(cache, symbol) == cache

\* _LIVE_CACHE.pop(symbol, None)
Pop(cache, symbol) == [cache EXCEPT ![symbol] = None]

InitCache ==
    /\ lc_cache = [s \in Symbols |-> None]
    /\ lc_time = 0 /\ lc_steps = 0 /\ lc_puts = 0
    /\ lc_pc = [t \in Getters |-> "idle"]
    /\ lc_symbol = [t \in Getters |-> None]
    /\ lc_now = [t \in Getters |-> 0]
    /\ lc_ret = [t \in Getters |-> None]
    /\ lc_last_put = [s \in Symbols |-> None]

\* time passes
LcAdvance(dt) ==
    /\ lc_steps < MaxTimeSteps
    /\ lc_steps' = lc_steps + 1
    /\ lc_time' = lc_time + dt
    /\ UNCHANGED <<lc_cache, lc_puts, lc_pc, lc_symbol, lc_now, lc_ret,
                   lc_last_put>>
    /\ UNCHANGED notCacheVars

\* _set_cached(symbol, data)
LcSetCached(symbol, data) ==
    /\ lc_puts < MaxPuts
    /\ lc_puts' = lc_puts + 1
    /\ lc_cache' = [lc_cache EXCEPT ![symbol] = Some([ts |-> lc_time, data |-> data])]
    /\ lc_last_put' = [lc_last_put EXCEPT
                          ![symbol] = Some([ts |-> lc_time, data |-> data])]
    /\ UNCHANGED <<lc_time, lc_steps, lc_pc, lc_symbol, lc_now, lc_ret>>
    /\ UNCHANGED notCacheVars

\* _get_cached(symbol): now = time.time()
LcGetReadNow(t, symbol) ==
    /\ lc_pc[t] = "idle"
    /\ lc_pc' = [lc_pc EXCEPT ![t] = "lookup"]
    /\ lc_symbol' = [lc_symbol EXCEPT ![t] = Some(symbol)]
    /\ lc_now' = [lc_now EXCEPT ![t] = lc_time]
    /\ UNCHANGED <<lc_cache, lc_time, lc_steps, lc_puts, lc_ret, lc_last_put>>
    /\ UNCHANGED notCacheVars

\* _get_cached(symbol): the body of with _CACHE_LOCK
LcGetLookup(t) ==
    /\ lc_pc[t] = "lookup"
    /\ LET symbol == Val(lc_symbol[t])
           entry  == lc_cache[symbol]
       IN IF entry = None
          THEN lc_ret' = [lc_ret EXCEPT ![t] = None] /\ UNCHANGED lc_cache
          ELSE IF Fresh(lc_now[t], Val(entry).ts)
          THEN /\ lc_ret' = [lc_ret EXCEPT ![t] = Some(Val(entry).data)]
               /\ UNCHANGED lc_cache
          ELSE /\ lc_cache' = Pop(lc_cache, symbol)
               /\ lc_ret' = [lc_ret EXCEPT ![t] = None]
    /\ lc_pc' = [lc_pc EXCEPT ![t] = "got"]
    /\ UNCHANGED <<lc_time, lc_steps, lc_puts, lc_symbol, lc_now, lc_last_put>>
    /\ UNCHANGED notCacheVars

\* the caller has the result
LcGetReturn(t) ==
    /\ lc_pc[t] = "got"
    /\ lc_pc' = [lc_pc EXCEPT ![t] = "idle"]
    /\ lc_symbol' = [lc_symbol EXCEPT ![t] = None]
    /\ lc_now' = [lc_now EXCEPT ![t] = 0]
    /\ lc_ret' = [lc_ret EXCEPT ![t] = None]
    /\ UNCHANGED <<lc_cache, lc_time, lc_steps, lc_puts, lc_last_put>>
    /\ UNCHANGED notCacheVars

(***************************************************************************)
(* The live cache again, with _CACHE_LOCK taken and released in steps of   *)
(* their own and the statements under it one step each.  The calls are all *)
(* for one symbol: the getters call _get_cached, one more thread calls     *)
(* _set_cached.                                                            *)
(***************************************************************************)
CachedSymbols == {ACME}
Putter == 0
CacheThreads == Getters \cup {Putter}

CacheLockFreeUnguarded(lock) == TRUE

\* with _CACHE_LOCK: the lock is taken when no thread holds it
CacheLockFree(lock) == lock = None

InitCacheLock ==
    /\ ck_cache = [s \in CachedSymbols |-> None]
    /\ ck_lock = None
    /\ ck_time = 0 /\ ck_steps = 0
    /\ ck_pc = [t \in CacheThreads |-> "idle"]
    /\ ck_now = [t \in Getters |-> 0]
    /\ ck_entry = [t \in Getters |-> None]
    /\ ck_ret = [t \in Getters |-> None]
    /\ ck_data = None
    /\ ck_puts = 0
    /\ ck_writes = {}

\* time passes
CkAdvance(dt) ==
    /\ ck_steps < MaxTimeSteps
    /\ ck_steps' = ck_steps + 1
    /\ ck_time' = ck_time + dt
    /\ UNCHANGED <<ck_cache, ck_lock, ck_pc, ck_now, ck_entry, ck_ret, ck_data,
                   ck_puts, ck_writes>>
    /\ UNCHANGED notCacheLockVars

\* _get_cached(symbol): now = time.time()
CkReadNow(t) ==
    /\ ck_pc[t] = "idle"
    /\ ck_pc' = [ck_pc EXCEPT ![t] = "acquire"]
    /\ ck_now' = [ck_now EXCEPT ![t] = ck_time]
    /\ UNCHANGED <<ck_cache, ck_lock, ck_time, ck_steps, ck_entry, ck_ret,
                   ck_data, ck_puts, ck_writes>>
    /\ UNCHANGED notCacheLockVars

\* with _CACHE_LOCK: in _get_cached and in _set_cached
CkAcquire(t) ==
    /\ ck_pc[t] = "acquire"
    /\ CacheLockFree(ck_lock)
    /\ ck_lock' = Some(t)
    /\ ck_pc' = [ck_pc EXCEPT ![t] = "locked"]
    /\ UNCHANGED <<ck_cache, ck_time, ck_steps, ck_now, ck_entry, ck_ret,
                   ck_data, ck_puts, ck_writes>>
    /\ UNCHANGED notCacheLockVars

\* entry = _LIVE_CACHE.get(symbol); if not entry: return None;
\* ts, data = entry; if now - ts <= LIVE_TTL_SEC: return data
CkLookup(t, symbol) ==
    /\ t \in Getters /\ ck_pc[t] = "locked"
    /\ LET entry == ck_cache[symbol] IN
       /\ ck_entry' = [ck_entry EXCEPT ![t] = entry]
       /\ IF entry = None
          THEN /\ ck_ret' = [ck_ret EXCEPT ![t] = None]
               /\ ck_pc' = [ck_pc EXCEPT ![t] = "release"]
          ELSE IF Fresh(ck_now[t], Val(entry).ts)
          THEN /\ ck_ret' = [ck_ret EXCEPT ![t] = Some(Val(entry).data)]
               /\ ck_pc' = [ck_pc EXCEPT ![t] = "release"]
          ELSE /\ ck_pc' = [ck_pc EXCEPT ![t] = "evict"]
               /\ UNCHANGED ck_ret
    /\ UNCHANGED <<ck_cache, ck_lock, ck_time, ck_steps, ck_now, ck_data,
                   ck_puts, ck_writes>>
    /\ UNCHANGED notCacheLockVars

\* _LIVE_CACHE.pop(symbol, None); return None
CkEvict(t, symbol) ==
    /\ t \in Getters /\ ck_pc[t] = "evict"
    /\ ck_cache' = Pop(ck_cache, symbol)
    /\ ck_ret' = [ck_ret EXCEPT ![t] = None]
    /\ ck_pc' = [ck_pc EXCEPT ![t] = "release"]
    /\ UNCHANGED <<ck_lock, ck_time, ck_steps, ck_now, ck_entry, ck_data,
                   ck_puts, ck_writes>>
    /\ UNCHANGED notCacheLockVars

\* the with block is left: the lock is released if this thread holds it
CkRelease(t) ==
    /\ ck_pc[t] = "release"
    /\ ck_lock' = IF ck_lock = Some(t) THEN None ELSE ck_lock
    /\ ck_pc' = [ck_pc EXCEPT ![t] = IF t = Putter THEN "idle" ELSE "got"]
    /\ ck_data' = IF t = Putter THEN None ELSE ck_data
    /\ UNCHANGED <<ck_cache, ck_time, ck_steps, ck_now, ck_entry, ck_ret,
                   ck_puts, ck_writes>>
    /\ UNCHANGED notCacheLockVars

\* the caller of _get_cached has the result
CkReturn(t) ==
    /\ t \in Getters /\ ck_pc[t] = "got"
    /\ ck_pc' = [ck_pc EXCEPT ![t] = "idle"]
    /\ ck_now' = [ck_now EXCEPT ![t] = 0]
    /\ ck_entry' = [ck_entry EXCEPT ![t] = None]
    /\ ck_ret' = [ck_ret EXCEPT ![t] = None]
    /\ UNCHANGED <<ck_cache, ck_lock, ck_time, ck_steps, ck_data, ck_puts,
                   ck_writes>>
    /\ UNCHANGED notCacheLockVars

\* _set_cached(symbol, data) is called
CkPutCall(data) ==
    /\ ck_pc[Putter] = "idle"
    /\ ck_puts < MaxPuts
    /\ ck_puts' = ck_puts + 1
    /\ ck_data' = Some(data)
    /\ ck_pc' = [ck_pc EXCEPT ![Putter] = "acquire"]
    /\ UNCHANGED <<ck_cache, ck_lock, ck_time, ck_steps, ck_now, ck_entry,
                   ck_ret, ck_writes>>
    /\ UNCHANGED notCacheLockVars

\* _LIVE_CACHE[symbol] = (time.time(), data)
CkPutWrite(symbol) ==
    /\ ck_pc[Putter] = "locked"
    /\ ck_cache' = [ck_cache EXCEPT
                       ![symbol] = Some([ts |-> ck_time, data |-> Val(ck_data)])]
    /\ ck_writes' = ck_writes \cup {[ts |-> ck_time, data |-> Val(ck_data)]}
    /\ ck_pc' = [ck_pc EXCEPT ![Putter] = "release"]
    /\ UNCHANGED <<ck_lock, ck_time, ck_steps, ck_now, ck_entry, ck_ret,
                   ck_data, ck_puts>>
    /\ UNCHANGED notCacheLockVars

(***************************************************************************)
(* POST /internal/refresh.  The for loop over the requested symbols is     *)
(* taken one iteration at a time; an iteration either gets the dict of     *)
(* refresh_symbol or lands in the except clause.                           *)
(***************************************************************************)
MaxBatch == 2      \* symbols in one payload

REFRESH_SECRET == "change_me"
\* the secret query parameter: absent, wrong, or the configured one
Secrets == {None, Some("guess"), Some(REFRESH_SECRET)}

\* payload.get("symbols") or []
BatchLists == UNION {[1..n -> RequestSymbols] : n \in 0..MaxBatch}

\* results[key] = res
DictPut(d, key, res) ==
    [k \in DOMAIN d \cup {key} |-> IF k = key THEN res ELSE d[k]]

EmptyDict == [k \in {} |-> None]

\* the dict the except clause stores
ErrorResult == [updated |-> FALSE, reason |-> "error", traceback |-> "traceback"]

\* what the rounds of one refresh_symbol call of the batch come back with:
\* the same for every round, nothing or a frame of one row
BatchRounds ==
    {[i \in 1..MAX_RETRIES |-> f] :
        f \in {None} \cup {Some(<<r>>) : r \in DfRows}}

BatchRoundsFor(db, now, symbol_in) ==
    IF RoundsFor(db, now, symbol_in) = {NoRounds}
    THEN {NoRounds} ELSE BatchRounds

InitBatch ==
    /\ ir_pc = "idle"
    /\ ir_symbols = <<>>
    /\ ir_i = 0
    /\ ir_results = EmptyDict
    /\ ir_updated = <<>>
    /\ ir_failed = <<>>
    /\ ir_calls = <<>>
    /\ ir_resp = None

\* the request arrives: 401, 400, or the loop begins
InternalRefreshBegin(secret, symbols) ==
    /\ ir_pc = "idle"
    /\ ir_symbols' = symbols
    /\ ir_results' = EmptyDict
    /\ ir_updated' = <<>>
    /\ ir_failed' = <<>>
    /\ ir_calls' = <<>>
    /\ IF secret # Some(REFRESH_SECRET)
       THEN /\ ir_pc' = "responded"
            /\ ir_resp' = Some([status |-> 401, body |-> None])
            /\ ir_i' = 0
       ELSE IF symbols = <<>>
       THEN /\ ir_pc' = "responded"
            /\ ir_resp' = Some([status |-> 400, body |-> None])
            /\ ir_i' = 0
       ELSE /\ ir_pc' = "loop"
            /\ ir_resp' = None
            /\ ir_i' = 1
    /\ UNCHANGED <<stocks, stock_prices>>
    /\ UNCHANGED notBatchVars

\* one iteration whose refresh_symbol call returns
InternalRefreshSymbol ==
    /\ ir_pc = "loop"
    /\ ir_i <= Len(ir_symbols)
    /\ LET s == ir_symbols[ir_i] IN
       \E rounds \in BatchRoundsFor(DB, today, s) :
         LET r   == RefreshSymbol(DB, today, s, rounds)
             res == r.result
         IN /\ stocks' = r.db.stocks
            /\ stock_prices' = r.db.stock_prices
            /\ ir_results' = DictPut(ir_results, Upper(s), res)
            /\ IF res.updated
               THEN /\ ir_updated' = Append(ir_updated, Upper(s))
                    /\ UNCHANGED ir_failed
               ELSE /\ ir_failed' = Append(ir_failed, Upper(s))
                    /\ UNCHANGED ir_updated
            /\ ir_calls' = Append(ir_calls, s)
    /\ ir_i' = ir_i + 1
    /\ UNCHANGED <<ir_pc, ir_symbols, ir_resp>>
    /\ UNCHANGED notBatchVars

\* one iteration whose refresh_symbol call raises on its first query
InternalRefreshRaises ==
    /\ ir_pc = "loop"
    /\ ir_i <= Len(ir_symbols)
    /\ LET s == ir_symbols[ir_i] IN
       /\ ir_results' = DictPut(ir_results, Upper(s), ErrorResult)
       /\ ir_failed' = Append(ir_failed, Upper(s))
       /\ ir_calls' = Append(ir_calls, s)
    /\ ir_i' = ir_i + 1
    /\ UNCHANGED <<ir_pc, ir_symbols, ir_updated, ir_resp>>
    /\ UNCHANGED <<stocks, stock_prices>>
    /\ UNCHANGED notBatchVars

\* the loop is over: the dict returned
InternalRefreshReturn ==
    /\ ir_pc = "loop"
    /\ ir_i > Len(ir_symbols)
    /\ ir_pc' = "responded"
    /\ ir_resp' = Some([status |-> 200,
                        body |-> Some([updated |-> ir_updated,
                                       failed |-> ir_failed,
                                       success_count |-> Len(ir_updated),
                                       fail_count |-> Len(ir_failed),
                                       results |-> ir_results])])
    /\ UNCHANGED <<ir_symbols, ir_i, ir_results, ir_updated, ir_failed, ir_calls>>
    /\ UNCHANGED <<stocks, stock_prices>>
    /\ UNCHANGED notBatchVars

\* the answer is sent
InternalRefreshFinish ==
    /\ ir_pc = "responded"
    /\ ir_pc' = "idle"
    /\ ir_symbols' = <<>>
    /\ ir_i' = 0
    /\ ir_results' = EmptyDict
    /\ ir_updated' = <<>>
    /\ ir_failed' = <<>>
    /\ ir_calls' = <<>>
    /\ ir_resp' = None
    /\ UNCHANGED <<stocks, stock_prices>>
    /\ UNCHANGED notBatchVars

(***************************************************************************)
(* The internal endpoints: POST /internal/refresh, /internal/refresh-all,  *)
(* /internal/refresh-all-stream, GET /internal/stale and                   *)
(* /internal/refresh-status.  Each begins with the comparison of the       *)
(* secret query parameter with REFRESH_SECRET.  One request is followed    *)
(* from its arrival to the end of the work it started, the background task *)
(* or the streamed generator included.                                     *)
(***************************************************************************)
RECENT_LIMIT == 10      \* LIMIT 10 of refresh_status

Endpoints == {"refresh", "refresh-all", "refresh-all-stream", "stale",
              "refresh-status"}
\* the endpoints that run the refresh of every stored symbol
FullRefreshEndpoints == {"refresh-all", "refresh-all-stream"}

InternalRequests ==
    {[endpoint |-> "refresh", secret |-> k, symbols |-> l] :
        k \in Secrets, l \in BatchLists}
    \cup {[endpoint |-> e, secret |-> k, symbols |-> <<>>] :
              e \in Endpoints \ {"refresh"}, k \in Secrets}

NoInternalRequest == [endpoint |-> "none", secret |-> None, symbols |-> <<>>]
NoAcc == [kind |-> "none"]

AuthorizedWhateverSecret(secret) == TRUE

\* not (secret != REFRESH_SECRET)
Authorized(secret) == secret = Some(REFRESH_SECRET)

\* SELECT symbol FROM stocks ORDER BY symbol
SelectSymbols(db) == OrderByText({s.symbol : s \in db.stocks})

\* what one refresh_symbol call asks of the store and of the upstream, in
\* order: each _fetch_history call passes the rate limiter
RefreshLog(r) ==
    <<"get_latest_date">>
    \o [i \in 1..r.fetch_calls |-> "fetch_history"]
    \o (IF r.stored # None THEN <<"store_history", "get_latest_date">> ELSE <<>>)

\* round(a / b) with the ties to the even neighbour
RoundDiv(a, b) ==
    LET q == a \div b
        r == a % b
    IN IF 2 * r < b THEN q
       ELSE IF 2 * r > b THEN q + 1
       ELSE IF q % 2 = 0 THEN q ELSE q + 1

\* SELECT COUNT(DISTINCT s.symbol) ... WHERE sp.date = %s
CountWithDate(db, d) ==
    Cardinality({s.symbol : s \in {t \in db.stocks :
                    \E r \in RowsOf(db, t.id) : r.date = d}})

\* SELECT s.symbol, MAX(sp.date) ... ORDER BY latest DESC LIMIT 10: the rows
\* with the same latest date come in any order
RecentUpdates(db) ==
    LET priced    == {s \in db.stocks : RowsOf(db, s.id) # {}}
        Latest(s) == SetMax({r.date : r \in RowsOf(db, s.id)})
        n         == Cardinality(priced)
        orders    == {f \in [1..n -> priced] :
                         /\ \A i, j \in 1..n : i # j => f[i] # f[j]
                         /\ \A i \in 1..(n - 1) : Latest(f[i]) >= Latest(f[i + 1])}
    IN {Limit([i \in 1..n |-> [symbol |-> f[i].symbol,
                               latest |-> DateStr(Latest(f[i]))]],
              RECENT_LIMIT) : f \in orders}

\* the dict refresh_status returns; freshness_percent in hundredths
RefreshStatusBody(db, local_today, recent) ==
    LET fresh_count == CountWithDate(db, local_today)
        total       == Cardinality(db.stocks)
    IN [date |-> DateStr(local_today),
        fresh_today |-> fresh_count,
        fresh_yesterday |-> CountWithDate(db, local_today - 1),
        total_stocks |-> total,
        freshness_percent |-> IF total > 0
                              THEN RoundDiv(fresh_count * 10000, total) ELSE 0,
        recent_updates |-> recent]

InitInternal ==
    /\ in_pc = "idle"
    /\ in_req = NoInternalRequest
    /\ in_resp = None
    /\ in_queue = <<>>
    /\ in_acc = NoAcc
    /\ in_log = <<>>
    /\ in_tasks = <<>>

\* the request arrives
InReceive(r) ==
    /\ in_pc = "idle"
    /\ in_pc' = "check"
    /\ in_req' = r
    /\ UNCHANGED <<in_resp, in_queue, in_acc, in_log, in_tasks>>
    /\ UNCHANGED <<stocks, stock_prices>>
    /\ UNCHANGED notInternalVars

\* if secret != REFRESH_SECRET: raise HTTPException(status_code=401)
InCheckSecret ==
    /\ in_pc = "check"
    /\ IF Authorized(in_req.secret)
       THEN /\ in_pc' = "body"
            /\ UNCHANGED in_resp
       ELSE /\ in_pc' = "responded"
            /\ in_resp' = Some([status |-> 401, body |-> None])
    /\ UNCHANGED <<in_req, in_queue, in_acc, in_log, in_tasks>>
    /\ UNCHANGED <<stocks, stock_prices>>
    /\ UNCHANGED notInternalVars

\* internal_refresh after the check: 400, or the loop begins
InRefreshBody ==
    /\ in_pc = "body" /\ in_req.endpoint = "refresh"
    /\ IF in_req.symbols = <<>>
       THEN /\ in_pc' = "responded"
            /\ in_resp' = Some([status |-> 400, body |-> None])
            /\ UNCHANGED <<in_queue, in_acc>>
       ELSE /\ in_pc' = "running"
            /\ in_queue' = in_req.symbols
            /\ in_acc' = [kind |-> "refresh", results |-> EmptyDict,
                          updated |-> <<>>, failed |-> <<>>]
            /\ UNCHANGED in_resp
    /\ UNCHANGED <<in_req, in_log, in_tasks>>
    /\ UNCHANGED <<stocks, stock_prices>>
    /\ UNCHANGED notInternalVars

\* refresh_all_stocks after the check: the task is added, the message returned
InRefreshAllBody ==
    /\ in_pc = "body" /\ in_req.endpoint = "refresh-all"
    /\ in_tasks' = Append(in_tasks, "_run_full_refresh")
    /\ in_resp' = Some([status |-> 200, body |-> Some("message")])
    /\ in_pc' = "responded"
    /\ UNCHANGED <<in_req, in_queue, in_acc, in_log>>
    /\ UNCHANGED <<stocks, stock_prices>>
    /\ UNCHANGED notInternalVars

\* refresh_all_stocks_stream after the check: the StreamingResponse is
\* returned, its generator not yet started
InRefreshAllStreamBody ==
    /\ in_pc = "body" /\ in_req.endpoint = "refresh-all-stream"
    /\ in_resp' = Some([status |-> 200, body |-> Some("stream")])
    /\ in_pc' = "responded"
    /\ UNCHANGED <<in_req, in_queue, in_acc, in_log, in_tasks>>
    /\ UNCHANGED <<stocks, stock_prices>>
    /\ UNCHANGED notInternalVars

\* stale_symbols after the check; today is the local day
InStaleBody ==
    /\ in_pc = "body" /\ in_req.endpoint = "stale"
    /\ \E local_today \in {today - 1, today, today + 1} :
         in_resp' = Some([status |-> 200,
                          body |-> Some(StaleSymbols(DB, local_today))])
    /\ in_log' = Append(in_log, "select_stale")
    /\ in_pc' = "responded"
    /\ UNCHANGED <<in_req, in_queue, in_acc, in_tasks>>
    /\ UNCHANGED <<stocks, stock_prices>>
    /\ UNCHANGED notInternalVars

\* refresh_status after the check; today is the local day
InRefreshStatusBody ==
    /\ in_pc = "body" /\ in_req.endpoint = "refresh-status"
    /\ \E local_today \in {today - 1, today, today + 1} :
       \E recent \in RecentUpdates(DB) :
         in_resp' = Some([status |-> 200,
                          body |-> Some(RefreshStatusBody(DB, local_today, recent))])
    /\ in_log' = Append(in_log, "select_status")
    /\ in_pc' = "responded"
    /\ UNCHANGED <<in_req, in_queue, in_acc, in_tasks>>
    /\ UNCHANGED <<stocks, stock_prices>>
    /\ UNCHANGED notInternalVars

\* _run_full_refresh is started from background_tasks, or the generator
\* _stream_full_refresh is started: the symbols are read
InFullRefreshBegin ==
    /\ in_pc = "responded"
    /\ in_req.endpoint \in FullRefreshEndpoints
    /\ Val(in_resp).status = 200
    /\ in_tasks' = IF in_req.endpoint = "refresh-all" THEN Tail(in_tasks)
                   ELSE in_tasks
    /\ in_queue' = SelectSymbols(DB)
    /\ in_acc' = [kind |-> "full", updated_count |-> 0, failed_symbols |-> <<>>]
    /\ in_log' = Append(in_log, "select_symbols")
    /\ in_pc' = "running"
    /\ UNCHANGED <<in_req, in_resp>>
    /\ UNCHANGED <<stocks, stock_prices>>
    /\ UNCHANGED notInternalVars

\* one iteration of the loop whose refresh_symbol call returns
InRefreshNext ==
    /\ in_pc = "running" /\ in_queue # <<>>
    /\ LET s == Head(in_queue) IN
       \E rounds \in BatchRoundsFor(DB, today, s) :
         LET r   == RefreshSymbol(DB, today, s, rounds)
             res == r.result
         IN /\ stocks' = r.db.stocks
            /\ stock_prices' = r.db.stock_prices
            /\ in_log' = in_log \o RefreshLog(r)
            /\ in_acc' =
                 IF in_acc.kind = "refresh"
                 THEN [in_acc EXCEPT
                         !.results = DictPut(@, Upper(s), res),
                         !.updated = IF res.updated THEN Append(@, Upper(s)) ELSE @,
                         !.failed  = IF res.updated THEN @ ELSE Append(@, Upper(s))]
                 ELSE [in_acc EXCEPT
                         !.updated_count = IF res.updated THEN @ + 1 ELSE @]
    /\ in_queue' = Tail(in_queue)
    /\ UNCHANGED <<in_pc, in_req, in_resp, in_tasks>>
    /\ UNCHANGED notInternalVars

\* one iteration whose refresh_symbol call raises on its first query
InRefreshNextRaises ==
    /\ in_pc = "running" /\ in_queue # <<>>
    /\ LET s == Head(in_queue) IN
       in_acc' =
         IF in_acc.kind = "refresh"
         THEN [in_acc EXCEPT !.results = DictPut(@, Upper(s), ErrorResult),
                             !.failed  = Append(@, Upper(s))]
         ELSE [in_acc EXCEPT !.failed_symbols = Append(@, s)]
    /\ in_log' = Append(in_log, "get_latest_date")
    /\ in_queue' = Tail(in_queue)
    /\ UNCHANGED <<in_pc, in_req, in_resp, in_tasks>>
    /\ UNCHANGED <<stocks, stock_prices>>
    /\ UNCHANGED notInternalVars

\* the loop is over: internal_refresh returns its dict, the full refresh ends
InLoopDone ==
    /\ in_pc = "running" /\ in_queue = <<>>
    /\ IF in_acc.kind = "refresh"
       THEN /\ in_pc' = "responded"
            /\ in_resp' = Some([status |-> 200,
                                body |-> Some([updated |-> in_acc.updated,
                                               failed |-> in_acc.failed,
                                               success_count |-> Len(in_acc.updated),
                                               fail_count |-> Len(in_acc.failed),
                                               results |-> in_acc.results])])
       ELSE /\ in_pc' = "done"
            /\ UNCHANGED in_resp
    /\ UNCHANGED <<in_req, in_queue, in_acc, in_log, in_tasks>>
    /\ UNCHANGED <<stocks, stock_prices>>
    /\ UNCHANGED notInternalVars

\* the answer is sent and nothing the request started is left to run
InFinish ==
    /\ \/ in_pc = "done"
       \/ /\ in_pc = "responded"
          /\ ~(in_req.endpoint \in FullRefreshEndpoints /\ Val(in_resp).status = 200)
    /\ in_pc' = "idle"
    /\ in_req' = NoInternalRequest
    /\ in_resp' = None
    /\ in_queue' = <<>>
    /\ in_acc' = NoAcc
    /\ in_log' = <<>>
    /\ in_tasks' = <<>>
    /\ UNCHANGED <<stocks, stock_prices>>
    /\ UNCHANGED notInternalVars

(***************************************************************************)
(* The specifications.                                                     *)
(***************************************************************************)
Init ==
    /\ InitStore /\ InitBackoff /\ InitRate /\ InitFetch /\ InitConcurrent
    /\ InitCache /\ InitPipelineFetch /\ InitSync /\ InitCacheLock
    /\ InitBatch /\ InitInternal

Next ==
    \/ \E r \in Requests : Receive(r)
    \/ HandleRefreshSymbol
    \/ HandleGetStock
    \/ HandleLive
    \/ HandleStaleSymbols
    \/ HandleProcessCompany
    \/ Finish
    \/ AdvanceDay

Spec == Init /\ [][Next]_vars

NextBackoff ==
    \/ \E retries \in 0..MaxBackoffRetries, base \in Bases :
          BoStart(retries, base)
    \/ BoRateLimitWait
    \/ \E v \in FnValues : BoCallReturns(v)
    \/ BoCallRaises
    \/ BoSleepDone
    \/ BoFinish

SpecBackoff == Init /\ [][NextBackoff]_vars

\* the start dates refresh_symbol passes: None, or watermark + 1 day
StartDates == {None} \cup {Some(d + 1) : d \in BarDates}

NextFetch ==
    \/ \E start_date \in StartDates : FhStart(start_date)
    \/ FhInvoke
    \/ BoRateLimitWait
    \/ \E v \in FnValues : BoCallReturns(v)
    \/ BoCallRaises
    \/ BoSleepDone
    \/ FhCollect
    \/ FhFinish

SpecFetch == Init /\ [][NextFetch]_vars

NextConcurrent ==
    \/ CcBegin
    \/ \E p \in Runs : CcReadWatermark(p)
    \/ \E p \in Runs : CcFetch(p)
    \/ \E p \in Runs : CcStore(p)
    \/ \E p \in Runs : CcReadAfter(p)

SpecConcurrent == Init /\ [][NextConcurrent]_vars

NextSync ==
    \/ \E start \in StartDates, now \in Days : RsBegin(start, now)
    \/ RsCallFetch
    \/ FhInvoke
    \/ BoRateLimitWait
    \/ \E v \in FnValues : BoCallReturns(v)
    \/ BoCallRaises
    \/ BoSleepDone
    \/ FhCollect
    \/ RsCollect
    \/ RsSleepDone
    \/ RsFailed
    \/ RsStore
    \/ RsFinish

\* every step that can be taken is taken in the end: an upstream call
\* returns or raises, a sleep ends
SpecSync == Init /\ [][NextSync]_vars /\ WF_vars(NextSync)

NextCacheLock ==
    \/ \E dt \in TimeSteps : CkAdvance(dt)
    \/ \E t \in Getters : CkReadNow(t)
    \/ \E t \in CacheThreads : CkAcquire(t)
    \/ \E t \in Getters, symbol \in CachedSymbols : CkLookup(t, symbol)
    \/ \E t \in Getters, symbol \in CachedSymbols : CkEvict(t, symbol)
    \/ \E t \in CacheThreads : CkRelease(t)
    \/ \E t \in Getters : CkReturn(t)
    \/ \E data \in Quotes : CkPutCall(data)
    \/ \E symbol \in CachedSymbols : CkPutWrite(symbol)

SpecCacheLock == Init /\ [][NextCacheLock]_vars

NextBatch ==
    \/ \E secret \in Secrets, symbols \in BatchLists :
          InternalRefreshBegin(secret, symbols)
    \/ InternalRefreshSymbol
    \/ InternalRefreshRaises
    \/ InternalRefreshReturn
    \/ InternalRefreshFinish
    \/ AdvanceDay

SpecBatch == Init /\ [][NextBatch]_vars

NextInternal ==
    \/ \E r \in InternalRequests : InReceive(r)
    \/ InCheckSecret
    \/ InRefreshBody
    \/ InRefreshAllBody
    \/ InRefreshAllStreamBody
    \/ InStaleBody
    \/ InRefreshStatusBody
    \/ InFullRefreshBegin
    \/ InRefreshNext
    \/ InRefreshNextRaises
    \/ InLoopDone
    \/ InFinish
    \/ AdvanceDay

SpecInternal == Init /\ [][NextInternal]_vars

NextPipelineFetch ==
    \/ \E start_date \in StartDates, alpha \in BOOLEAN : PfStart(start_date, alpha)
    \/ PfAlphaOff
    \/ PfAvWait
    \/ \E outcome \in AlphaOutcomes : PfAlphaGet(outcome)
    \/ PfInvoke
    \/ BoRateLimitWait
    \/ \E v \in FnValues : BoCallReturns(v)
    \/ BoCallRaises
    \/ BoSleepDone
    \/ PfCollect
    \/ PfFinish

SpecPipelineFetch == Init /\ [][NextPipelineFetch]_vars

NextCache ==
    \/ \E dt \in TimeSteps : LcAdvance(dt)
    \/ \E symbol \in Symbols, data \in Quotes : LcSetCached(symbol, data)
    \/ \E t \in Getters, symbol \in Symbols : LcGetReadNow(t, symbol)
    \/ \E t \in Getters : LcGetLookup(t)
    \/ \E t \in Getters : LcGetReturn(t)

SpecCache == Init /\ [][NextCache]_vars

NextRate ==
    \/ \E t \in Threads : RlCall(t)
    \/ \E t \in Threads : RlAcquire(t)
    \/ \E t \in Threads : RlReadNow(t)
    \/ \E t \in Threads : RlWake(t)
    \/ \E t \in Threads : RlStamp(t)
    \/ \E t \in Threads : RlRelease(t)
    \/ Tick

SpecRate == Init /\ [][NextRate]_vars

NextBackoffGate ==
    \/ \E base \in Bases : BoStart(DEFAULT_RETRIES, base)
    \/ BgEnterWait
    \/ \E t \in GateThreads \ {BackoffThread} : RlCall(t)
    \/ \E t \in GateThreads : RlAcquire(t)
    \/ \E t \in GateThreads : RlReadNow(t)
    \/ \E t \in GateThreads : RlWake(t)
    \/ \E t \in GateThreads : RlStamp(t)
    \/ \E t \in GateThreads : RlRelease(t)
    \/ Tick
    \/ BgLeaveWait
    \/ \E v \in FnValues : BoCallReturns(v)
    \/ BoCallRaises
    \/ BoSleepDone

SpecBackoffGate == Init /\ [][NextBackoffGate]_vars

(***************************************************************************)
(* Reading a date back from its text, as date.fromisoformat does.          *)
(***************************************************************************)
DigitValue(c) == (CHOOSE i \in 1..10 : DecimalDigits[i] = c) - 1

RECURSIVE DecimalValue(_)
DecimalValue(s) ==
    IF s = <<>> THEN 0
    ELSE 10 * DecimalValue(SubSeq(s, 1, Len(s) - 1)) + DigitValue(s[Len(s)])

DaysFromCivil(y0, m, d) ==
    LET y   == IF m <= 2 THEN y0 - 1 ELSE y0
        era == y \div 400
        yoe == y - era * 400
        doy == (153 * (IF m > 2 THEN m - 3 ELSE m + 9) + 2) \div 5 + d - 1
        doe == yoe * 365 + yoe \div 4 - yoe \div 100 + doy
    IN era * 146097 + doe - 719468

\* the date a "YYYY-MM-DD" text names
DateOfText(s) ==
    DaysFromCivil(DecimalValue(SubSeq(s, 1, 4)), DecimalValue(SubSeq(s, 6, 7)),
                  DecimalValue(SubSeq(s, 9, 10)))

\* a text is the ISO text of a date
IsDateText(s) ==
    /\ Len(s) = 10 /\ s[5] = "-" /\ s[8] = "-"
    /\ \A i \in {1, 2, 3, 4, 6, 7, 9, 10} :
          \E k \in 1..10 : DecimalDigits[k] = s[i]

\* the date an optional text names, if it names one
DateOfLatest(o) ==
    IF o # None /\ IsDateText(Val(o)) THEN Some(DateOfText(Val(o))) ELSE None

(***************************************************************************)
(* Properties of the store and the handlers (Spec).                        *)
(***************************************************************************)
DBNext == [stocks |-> stocks', stock_prices |-> stock_prices']

\* The stored PricePoints: the rows of stock_prices under their stock's
\* symbol, as a bag of [symbol, date, open, high, low, close, volume].
PointOf(db, r) ==
    [symbol |-> (CHOOSE s \in db.stocks : s.id = r.stock_id).symbol,
     date |-> r.date, open |-> r.open, high |-> r.high, low |-> r.low,
     close |-> r.close, volume |-> r.volume]

PricePoints(db) ==
    LET rows == BagToSet(db.stock_prices) IN
    [p \in {PointOf(db, r) : r \in rows} |->
        db.stock_prices[CHOOSE r \in rows : PointOf(db, r) = p]]

\* the PricePoint a fetched row of a symbol is stored as
FetchedPoint(symbol, r) ==
    [symbol |-> symbol, date |-> r.date, open |-> r.Open, high |-> r.High,
     low |-> r.Low, close |-> r.Close, volume |-> VolumeOf(r.Volume)]

\* a refresh_symbol request has just been answered
RefreshAnswered == pc = "responded" /\ req.op = "refresh_symbol"
\* a GET /api/stocks request has just been answered
GetStockAnswered == pc = "responded" /\ req.op = "get_stock"

\* C1: storing a non-empty fetched frame a second time, for any symbol and
\* from any reachable store, leaves the stored PricePoints as the first
\* store left them; for _store_history and for store_stock_data.
C1_IdempotentMerge ==
    pc = "idle" =>
        \A sym \in Symbols, df \in DataFrames :
            LET once   == StoreHistory(DB, sym, sym, Some(df))
                twice  == StoreHistory(once, sym, sym, Some(df))
                ponce  == StoreStockData(DB, sym, CompanyName(sym), Some(df))
                ptwice == StoreStockData(ponce, sym, CompanyName(sym), Some(df))
            IN /\ PricePoints(twice) = PricePoints(once)
               /\ PricePoints(ptwice) = PricePoints(ponce)

\* a refresh stored a frame all of whose rows were in the store already, as
\* it left them the first time
C1_Witness ==
    /\ RefreshAnswered
    /\ resp.stored # None
    /\ resp.result.reason = "no_new_rows"
    /\ \A i \in 1..Len(Val(resp.stored)) :
          BagIn(FetchedPoint(Upper(req.symbol), Val(resp.stored)[i]),
                PricePoints(DB))

\* C2: there is at most one stored PricePoint per (symbol, date), and a
\* stored PricePoint is in the store, with the same values, after every step.
UniquePerSymbolDate ==
    \A r \in BagToSet(stock_prices) :
        /\ CopiesIn(r, stock_prices) = 1
        /\ \A q \in BagToSet(stock_prices) :
              (/\ PointOf(DB, q).symbol = PointOf(DB, r).symbol
               /\ q.date = r.date) => q = r

PricePointsKept ==
    \A r \in BagToSet(stock_prices) :
        \E q \in BagToSet(stock_prices') : PointOf(DBNext, q) = PointOf(DB, r)

C2_UniqueAndImmutable == []UniquePerSymbolDate /\ [][PricePointsKept]_vars

\* a refresh fetched other values for a day that was stored, and the stored
\* PricePoint of that day is not the fetched one
C2_Witness ==
    /\ RefreshAnswered
    /\ resp.stored # None
    /\ \E i \in 1..Len(Val(resp.stored)) :
          LET f == FetchedPoint(Upper(req.symbol), Val(resp.stored)[i]) IN
          \E p \in BagToSet(PricePoints(DB)) :
              p.symbol = f.symbol /\ p.date = f.date /\ p # f

\* C3: no step lowers a symbol's watermark or takes it from present to absent.
C3_WatermarkMonotone ==
    [][\A sym \in Symbols :
          LET before == GetLatestDate(DB, sym)
              after  == GetLatestDate(DBNext, sym)
          IN before # None => (after # None /\ Val(after) >= Val(before))]_vars

\* a refresh of a symbol that had a watermark stored a frame with a row
\* older than the watermark it leaves
C3_Witness ==
    /\ RefreshAnswered
    /\ resp.start # None
    /\ resp.stored # None
    /\ \E i \in 1..Len(Val(resp.stored)) :
          Val(resp.stored)[i].date < DateOfText(Val(resp.result.latest))

(***************************************************************************)
(* The staleness policy as the specification words it: stale only if the   *)
(* watermark is before today and today is a Monday-Friday.                 *)
(***************************************************************************)
IsStale(watermark, now) == watermark < now /\ IsTradingWeekday(now)

\* C6: a symbol with stored data is treated as stale (refresh_symbol goes on
\* to fetch, stale_symbols lists it) only if IsStale holds of its watermark.
C6_StaleOnlyOnTradingWeekday ==
    /\ (RefreshAnswered /\ resp.start # None /\ resp.fetch_calls > 0)
          => IsStale(Val(resp.start) - 1, today)
    /\ (pc = "responded" /\ req.op = "stale_symbols")
          => \A i \in 1..Len(resp.symbols) :
                GetLatestDate(DB, resp.symbols[i]) # None
                    => IsStale(Val(GetLatestDate(DB, resp.symbols[i])),
                               resp.local_today)

\* the served symbol of a read, when the term matches exactly one stock
OnlyMatch(term) == CHOOSE s \in Matches(DB, term) : TRUE

\* C7: a read with refresh=0 of a symbol without stored data runs the fetch
\* chain, and when that returns rows the store holds them afterwards, with
\* the watermark at their latest date.
C7_NeverFetchedReadFetches ==
    [][(/\ pc = "handling" /\ req.op = "get_stock" /\ req.refresh = 0
        /\ pc' = "responded"
        /\ \A sym \in Symbols :
              ILike(sym, req.term) => GetLatestDate(DB, sym) = None)
       => /\ resp'.sync.fetch_calls > 0
          /\ resp'.sync.stored # None =>
                LET sym == Val(resp'.sync.symbol)
                    df  == Val(resp'.sync.stored)
                IN /\ \A i \in 1..Len(df) :
                         BagIn(FetchedPoint(sym, df[i]), PricePoints(DBNext))
                   /\ Val(GetLatestDate(DBNext, sym))
                          = SetMax({df[i].date : i \in 1..Len(df)})]_vars

\* C8: a read that finds its stock runs the synchronizer exactly when refresh
\* is set or the stock's watermark is stale.
C8_ReadSyncsIffForcedOrStale ==
    [][(/\ pc = "handling" /\ req.op = "get_stock" /\ pc' = "responded"
        /\ Cardinality(Matches(DB, req.term)) = 1)
       => LET w == GetLatestDate(DB, OnlyMatch(req.term).symbol) IN
          (resp'.sync.result # None)
              <=> (req.refresh # 0 \/ (w # None /\ IsStale(Val(w), today)))]_vars

\* C9: refresh_symbol of a symbol whose watermark is today or later answers
\* up_to_date, not updated, without a _fetch_history call or a sleep, and
\* leaves both tables as they were.
C9_UpToDateShortCircuit ==
    [][(/\ pc = "handling" /\ req.op = "refresh_symbol" /\ pc' = "responded"
        /\ GetLatestDate(DB, Upper(req.symbol)) # None
        /\ Val(GetLatestDate(DB, Upper(req.symbol))) >= today)
       => /\ resp'.result.reason = "up_to_date"
          /\ resp'.result.updated = FALSE
          /\ resp'.fetch_calls = 0
          /\ resp'.sleeps = <<>>
          /\ stocks' = stocks
          /\ stock_prices' = stock_prices]_vars

\* refresh_symbol answered up_to_date for a symbol whose watermark is today
C9_Witness ==
    /\ RefreshAnswered
    /\ resp.result.reason = "up_to_date"
    /\ DateOfLatest(resp.result.latest) = Some(today)

\* the stored rows of a stock, newest first, as the "prices" list shows
\* them: the i-th is the row with i - 1 newer rows
StoredPrices(db, stock_id) ==
    LET R == RowsOf(db, stock_id) IN
    [i \in 1..Cardinality(R) |->
        LET r == CHOOSE x \in R :
                     Cardinality({y \in R : y.date > x.date}) = i - 1
        IN [date |-> DateStr(r.date), open |-> r.open, high |-> r.high,
            low |-> r.low, close |-> r.close, volume |-> r.volume]]

AllRaised == \A k \in 1..Len(bo_outcomes) : bo_outcomes[k] = FnRaised

\* C4: when _with_backoff(fn, retries=N) returns, fn was called at most N
\* times; if every call raised, fn was called exactly N times and the result
\* is None; if the k-th call was the first to return, fn was called exactly
\* k times and the result is the value it returned.  No exception leaves
\* _with_backoff: every call that starts can only end in "returned".
C4_BackoffBound ==
    /\ bo_pc \in {"idle", "rate_limit", "call", "sleep", "returned"}
    /\ bo_calls = Len(bo_outcomes)
    /\ bo_calls <= bo_retries
    /\ \A k \in 1..(Len(bo_outcomes) - 1) : bo_outcomes[k] = FnRaised
    /\ bo_pc = "returned" =>
          /\ AllRaised => (bo_calls = bo_retries /\ bo_result = None)
          /\ ~AllRaised =>
                bo_result = Some(bo_outcomes[bo_calls].value)
    /\ bo_pc \in {"rate_limit", "call", "sleep"} => bo_i < bo_retries

\* fn raised on each of four attempts and None was returned
C4_Witness ==
    /\ bo_pc = "returned"
    /\ bo_retries = 4
    /\ bo_outcomes = <<FnRaised, FnRaised, FnRaised, FnRaised>>
    /\ bo_result = None

(***************************************************************************)
(* Properties of _rate_limit_wait (SpecRate).                              *)
(***************************************************************************)
InsideLock(t) == rl_pc[t] \in {"locked", "sleeping", "stamp", "release"}

\* C5: the recorded timestamps of successive _rate_limit_wait calls are at
\* least RATE_LIMIT_SEC apart, and at most one thread at a time is between
\* reading and writing the shared timestamp: the thread that holds _YF_LOCK.
C5_RateLimitSpacing ==
    /\ \A k \in 1..(Len(rl_log) - 1) :
          rl_log[k + 1] - rl_log[k] >= RATE_LIMIT_SEC
    /\ \A t, u \in Threads : (InsideLock(t) /\ InsideLock(u)) => t = u
    /\ \A t \in Threads : InsideLock(t) <=> yf_lock = Some(t)

\* a thread slept out the rest of the interval while another waited for the
\* lock, and its timestamp is RATE_LIMIT_SEC after the one before
C5_Witness ==
    /\ Len(rl_log) >= 2
    /\ rl_log[2] - rl_log[1] = RATE_LIMIT_SEC
    /\ \E t, u \in Threads :
          /\ rl_pc[t] = "release"
          /\ rl_wake[t] = rl_log[2]
          /\ rl_pc[u] = "acquire"

\* C11: a history read whose term matches no stock with stored price rows,
\* also after its synchronization attempt, is answered 404, and so is a live
\* request for a symbol without stored price rows.
C11_NoDataIsNotFound ==
    [][/\ (/\ pc = "handling" /\ req.op = "get_stock" /\ pc' = "responded"
           /\ \A s \in Matches(DBNext, req.term) : RowsOf(DBNext, s.id) = {})
          => (resp'.status = 404 /\ resp'.body = None)
       /\ (/\ pc = "handling" /\ req.op = "live" /\ pc' = "responded"
           /\ GetLatestDate(DB, Upper(req.symbol)) = None)
          => (resp'.status = 404 /\ resp'.body = None)]_vars

(***************************************************************************)
(* Properties of _fetch_history (SpecFetch).                               *)
(***************************************************************************)
\* the strategy _fetch_history begins with: the explicit range when it was
\* given a start date, the 5-day window when not
ExpectedFirst == IF fh_start # None THEN 1 ELSE 2

NoRowsBefore(n) == \A j \in 1..n : ~HasRows(fh_trace[j].df)

\* C12: the strategies run are, in this order, the explicit range (only with
\* a start date), "5d", "1mo", the download entry point; a strategy runs
\* only after every earlier one came back without rows; the result is the
\* frame of the first strategy that had rows, or None when none had.
C12_StrategyOrder ==
    /\ \A j \in 1..Len(fh_trace) :
          fh_trace[j].strategy = Strategies[ExpectedFirst + j - 1]
    /\ NoRowsBefore(Len(fh_trace) - 1)
    /\ fh_pc \in {"strategy", "in_backoff"} =>
          /\ NoRowsBefore(Len(fh_trace))
          /\ fh_k = ExpectedFirst + Len(fh_trace)
    /\ fh_pc = "returned" =>
          /\ Len(fh_trace) > 0
          /\ IF HasRows(fh_trace[Len(fh_trace)].df)
             THEN fh_result = fh_trace[Len(fh_trace)].df
             ELSE /\ fh_result = None
                  /\ ExpectedFirst + Len(fh_trace) - 1 = Len(Strategies)

\* without a start date, "5d" came back without rows, "1mo" had rows and
\* was returned: the download entry point was not tried
C12_Witness ==
    /\ fh_pc = "returned"
    /\ fh_start = None
    /\ Len(fh_trace) = 2
    /\ fh_trace[1].strategy = "5d" /\ ~HasRows(fh_trace[1].df)
    /\ fh_trace[2].strategy = "1mo" /\ HasRows(fh_result)

\* C13: a refresh_symbol whose _fetch_history rounds all came back empty
\* (each of them None, whatever the upstream calls raised or returned)
\* answers updated=false, fetch_failed_after_retries, with the watermark the
\* symbol had as latest, and leaves both tables as they were.
C13_FetchFailureAbsorbed ==
    [][(/\ pc = "handling" /\ req.op = "refresh_symbol" /\ pc' = "responded"
        /\ resp'.fetch_calls = MAX_RETRIES
        /\ resp'.stored = None)
       => /\ resp'.result.updated = FALSE
          /\ resp'.result.reason = "fetch_failed_after_retries"
          /\ DateOfLatest(resp'.result.latest)
                = GetLatestDate(DB, Upper(req.symbol))
          /\ stocks' = stocks
          /\ stock_prices' = stock_prices]_vars

\* a refresh of a symbol with a watermark before today failed in every round
C13_Witness ==
    /\ RefreshAnswered
    /\ resp.fetch_calls = MAX_RETRIES
    /\ resp.result.reason = "fetch_failed_after_retries"
    /\ resp.result.latest # None
    /\ DateOfText(Val(resp.result.latest)) < today

\* C14: a run of process_company during which a store operation failed (the
\* watermark read or the merge) ends as a failure, not as a normal return.
C14_StoreFailuresPropagate ==
    (/\ pc = "responded" /\ req.op = "process_company"
     /\ resp.errors # {})
        => resp.outcome # "returned"

(***************************************************************************)
(* Properties of concurrent refresh_symbol runs (SpecConcurrent).          *)
(***************************************************************************)
AllRunsDone == \A p \in Runs : cc_pc[p] = "done"

\* C15: when the runs for one symbol have all returned, however their steps
\* interleaved, the stored PricePoints and the symbol's watermark are those
\* a single run with the same upstream frame would have left, and no
\* (symbol, date) is stored twice, at any moment.
C15_ConcurrentRefresh ==
    /\ UniquePerSymbolDate
    /\ AllRunsDone =>
          /\ PricePoints(DB) = PricePoints(Val(cc_single))
          /\ GetLatestDate(DB, Val(cc_symbol))
                = GetLatestDate(Val(cc_single), Val(cc_symbol))

\* two runs read the same watermark before either stored, both stored a
\* frame with rows, and both have returned
C15_Witness ==
    /\ AllRunsDone
    /\ cc_lb[1] = cc_lb[2]
    /\ cc_lb[1] # None
    /\ ~IsEmptyDf(cc_df)
    /\ Val(GetLatestDate(DB, Val(cc_symbol))) > Val(cc_lb[1])

(***************************************************************************)
(* Properties of the live cache (SpecCache).                               *)
(***************************************************************************)
\* C16: a _get_cached call that read the time n returns data only if the
\* symbol's last write (t0, data) has n - t0 <= LIVE_TTL_SEC, and it returns
\* None when there was no write or n - t0 > LIVE_TTL_SEC; a call that looks
\* the entry up at the time it read, with n - t0 <= LIVE_TTL_SEC, returns
\* the data written.
C16_CacheTTL ==
    [][\A t \in Getters :
          (lc_pc[t] = "lookup" /\ lc_pc'[t] = "got") =>
              LET last == lc_last_put[Val(lc_symbol[t])]
                  n    == lc_now[t]
              IN /\ lc_ret'[t] # None =>
                       /\ last # None
                       /\ n - Val(last).ts <= LIVE_TTL_SEC
                       /\ lc_ret'[t] = Some(Val(last).data)
                 /\ (/\ last # None
                     /\ n - Val(last).ts <= LIVE_TTL_SEC
                     /\ lc_time = n) => lc_ret'[t] # None]_vars

\* an entry was served exactly LIVE_TTL_SEC after it was written
C16_Witness ==
    \E t \in Getters :
        /\ lc_pc[t] = "got"
        /\ lc_last_put[Val(lc_symbol[t])] # None
        /\ lc_now[t] - Val(lc_last_put[Val(lc_symbol[t])]).ts = LIVE_TTL_SEC
        /\ lc_ret[t] = Some(Val(lc_last_put[Val(lc_symbol[t])]).data)

(***************************************************************************)
(* The live path and the live cache (Spec).  live and get_live_info read   *)
(* the store; neither calls _get_cached or _set_cached, so the handlers    *)
(* leave lc_cache as it is.                                                *)
(***************************************************************************)
\* C17: once a live request for a symbol was answered with a quote, the
\* live cache holds an entry for that symbol, from which a request within
\* LIVE_TTL_SEC is answered.
C17_LivePathUsesCache ==
    (pc = "responded" /\ resp.op = "live" /\ resp.status = 200) =>
        lc_cache[Val(resp.body).symbol] # None

(***************************************************************************)
(* The pooled connection of a request (Spec).                              *)
(***************************************************************************)
\* C18: a request that slept in the retry delay of refresh_symbol does not
\* hold a connection of the pool over that delay.
C18_ConnectionNotHeldAcrossSleep ==
    (pc = "responded" /\ resp.op = "refresh_symbol" /\ resp.sleeps # <<>>) =>
        ~conn_held

(***************************************************************************)
(* GET /internal/stale against refresh_symbol (Spec).                      *)
(***************************************************************************)
\* the symbols of the store that have no price row dated asOfDate or later
WatermarkBefore(asOfDate) ==
    {s.symbol : s \in {t \in stocks :
        \A r \in BagToSet(stock_prices) : r.stock_id = t.id => r.date < asOfDate}}

\* C19: the list GET /internal/stale answers holds only symbols of the store
\* whose watermark is before the day it used, a symbol without price rows
\* counting as one; it is in ascending order of symbol; it holds all of them
\* up to STALE_LIMIT, the least ones when there are more; and when nothing
\* was cut off, a symbol of the store is missing from it exactly if
\* refresh_symbol, on that same day, answers up_to_date.
C19_StaleList ==
    (pc = "responded" /\ resp.op = "stale_symbols") =>
        LET L     == resp.symbols
            asOf  == resp.local_today
            stale == WatermarkBefore(asOf)
            InL   == {L[i] : i \in DOMAIN L}
        IN /\ InL \subseteq stale
           /\ \A i, j \in DOMAIN L : i < j => TextLess(L[i], L[j])
           /\ Len(L) = IF Cardinality(stale) < STALE_LIMIT
                       THEN Cardinality(stale) ELSE STALE_LIMIT
           /\ \A x \in stale \ InL : \A y \in InL : TextLess(y, x)
           /\ Cardinality(stale) <= STALE_LIMIT =>
                 \A s \in stocks :
                    s.symbol \notin InL <=>
                       \A rounds \in RoundsFor(DB, asOf, s.symbol) :
                          RefreshSymbol(DB, asOf, s.symbol, rounds).result.reason
                              = "up_to_date"

\* both symbols were listed, one of them without any price row, the other
\* with a watermark
C19_Witness ==
    /\ pc = "responded" /\ resp.op = "stale_symbols"
    /\ Len(resp.symbols) = 2
    /\ \E s, t \in stocks :
          /\ \A r \in BagToSet(stock_prices) : r.stock_id # s.id
          /\ \E r \in BagToSet(stock_prices) : r.stock_id = t.id

(***************************************************************************)
(* The gate before upstream calls (SpecPipelineFetch).                     *)
(***************************************************************************)
\* C20: every upstream call of a synchronization comes right after one
\* _rate_limit_wait: inside _with_backoff each call of fn follows one
\* _rate_limit_wait, and a call made outside _with_backoff has
\* _rate_limit_wait as the step before it.
C20_EveryUpstreamCallGated ==
    /\ bo_waits = bo_calls + (IF bo_pc = "call" THEN 1 ELSE 0)
    /\ \A i \in DOMAIN pf_log :
          pf_log[i] = "requests.get" =>
              i > 1 /\ pf_log[i - 1] = "_rate_limit_wait"

(***************************************************************************)
(* The delays of _with_backoff (SpecBackoffGate).                          *)
(***************************************************************************)
\* C21: when attempt i of _with_backoff raises and attempts remain, the
\* thread sleeps base * 2^i, once, before the next attempt; when the last
\* attempt raises or an attempt returns, no sleep follows; and the thread
\* does not hold _YF_LOCK while it sleeps this delay.
C21_BackoffSchedule ==
    [][/\ (bo_pc = "call" /\ bo_pc' = "sleep") =>
             /\ bo_i < bo_retries - 1
             /\ bo_outcomes'[Len(bo_outcomes')] = FnRaised
             /\ bo_sleeps' = Append(bo_sleeps, bo_base * 2^bo_i)
       /\ (bo_pc = "call" /\ bo_pc' \notin {"call", "sleep"}) =>
             /\ bo_pc' = "returned"
             /\ bo_sleeps' = bo_sleeps
             /\ \/ bo_outcomes'[Len(bo_outcomes')] # FnRaised
                \/ bo_i = bo_retries - 1
       /\ bo_pc # "call" => bo_sleeps' = bo_sleeps
       /\ (bo_pc = "sleep" /\ bo_pc' # "sleep") =>
             bo_i' = bo_i + 1 /\ bo_pc' = "rate_limit"
       /\ bo_pc' = "sleep" => yf_lock' # Some(BackoffThread)]_vars

\* three attempts raised, with delays base, 2 base and 4 base slept, the
\* last of them while the other thread held _YF_LOCK
C21_Witness ==
    /\ bo_pc = "sleep"
    /\ bo_i = 2
    /\ bo_sleeps = <<bo_base, 2 * bo_base, 4 * bo_base>>
    /\ yf_lock # None

(***************************************************************************)
(* The retry loop of refresh_symbol (SpecSync).                            *)
(***************************************************************************)
\* the upstream calls a refresh_symbol call has made so far
UpstreamCalls == rs_upstream + fh_upstream + bo_calls

\* the strategies _fetch_history has for a start date
StrategiesFor(start) == IF start # None THEN 4 ELSE 3

\* C22: a refresh_symbol call that has entered its retry loop returns a
\* dict, given that every upstream call returns or raises; by then it has
\* made at most max_retries * S * 4 upstream calls, S being 4 with a
\* watermark and 3 without; it runs at most max_retries rounds, and no
\* round follows one that came back with rows.
C22_BoundedSync ==
    /\ [](rs_pc # "idle" =>
             /\ UpstreamCalls <= MAX_RETRIES * StrategiesFor(rs_start) * DEFAULT_RETRIES
             /\ Len(rs_rounds) <= MAX_RETRIES
             /\ \A i \in 1..(Len(rs_rounds) - 1) : ~rs_rounds[i]
             /\ (rs_rounds # <<>> /\ rs_rounds[Len(rs_rounds)]) =>
                    rs_pc \in {"store", "returned"}
             /\ rs_pc = "returned" => rs_result # None)
    /\ (rs_pc = "loop") ~> (rs_pc = "returned")

\* a call with a watermark returned after max_retries * 4 * 4 upstream
\* calls, every one of which raised
C22_Witness ==
    /\ rs_pc = "returned"
    /\ rs_start # None
    /\ rs_result = Some("fetch_failed_after_retries")
    /\ rs_upstream = MAX_RETRIES * 4 * DEFAULT_RETRIES

(***************************************************************************)
(* The dict refresh_symbol returns, against the store (Spec).              *)
(***************************************************************************)
\* C23: in the dict a refresh_symbol call returns, updated is true exactly
\* if the symbol's watermark after the call is later than the one before
\* it, or there is one after and was none before; reason is "ok" exactly if
\* updated is true and is up_to_date, fetch_failed_after_retries or
\* no_new_rows otherwise; and latest is the text of the symbol's watermark
\* at the return, or None when it has none.
C23_ResultMatchesStore ==
    [][(pc = "handling" /\ req.op = "refresh_symbol" /\ pc' = "responded") =>
          LET sym    == Upper(req.symbol)
              before == GetLatestDate(DB, sym)
              after  == GetLatestDate(DBNext, sym)
              r      == resp'.result
          IN /\ r.updated <=>
                   /\ after # None
                   /\ before = None \/ Val(after) > Val(before)
             /\ r.reason = "ok" <=> r.updated
             /\ r.reason \in {"ok", "up_to_date", "fetch_failed_after_retries",
                              "no_new_rows"}
             /\ r.latest = None <=> after = None
             /\ DateOfLatest(r.latest) = after]_vars

\* a refresh stored a fetched frame and answered no_new_rows, the watermark
\* being what it was
C23_Witness ==
    /\ RefreshAnswered
    /\ resp.stored # None
    /\ resp.result.reason = "no_new_rows"
    /\ resp.start # None
    /\ DateOfLatest(resp.result.latest) = Some(Val(resp.start) - 1)

\* C24: _set_cached(symbol, data) puts (the time of the call, data) under
\* symbol, whatever was there, and leaves the other symbols' entries alone;
\* a _get_cached(symbol) that finds an entry with now - ts > LIVE_TTL_SEC
\* removes it and returns None; one that finds an entry within
\* LIVE_TTL_SEC returns its data and leaves the map as it is; and no
\* _get_cached changes another symbol's entry.
C24_OverwriteAndLazyEviction ==
    [][/\ lc_puts' # lc_puts =>
             \E symbol \in Symbols, data \in Quotes :
                lc_cache' = [lc_cache EXCEPT
                                ![symbol] = Some([ts |-> lc_time, data |-> data])]
       /\ \A t \in Getters :
             (lc_pc[t] = "lookup" /\ lc_pc'[t] = "got") =>
                LET symbol == Val(lc_symbol[t])
                    entry  == lc_cache[symbol]
                IN /\ \A s \in Symbols \ {symbol} : lc_cache'[s] = lc_cache[s]
                   /\ entry = None =>
                         lc_cache' = lc_cache /\ lc_ret'[t] = None
                   /\ (entry # None /\ lc_now[t] - Val(entry).ts > LIVE_TTL_SEC) =>
                         lc_cache'[symbol] = None /\ lc_ret'[t] = None
                   /\ (entry # None /\ lc_now[t] - Val(entry).ts <= LIVE_TTL_SEC) =>
                         /\ lc_cache' = lc_cache
                         /\ lc_ret'[t] = Some(Val(entry).data)
       /\ (lc_puts' = lc_puts /\ \A t \in Getters : lc_pc[t] # "lookup") =>
             lc_cache' = lc_cache]_vars

\* one symbol was written twice, the second time LIVE_TTL_SEC into the run,
\* and a read 2 * LIVE_TTL_SEC into the run returned the second data
C24_Witness ==
    \E t \in Getters, symbol \in Symbols :
        /\ lc_pc[t] = "got"
        /\ lc_puts = 2
        /\ lc_last_put[symbol] # None
        /\ \A s \in Symbols \ {symbol} : lc_last_put[s] = None
        /\ Val(lc_last_put[symbol]).ts = LIVE_TTL_SEC
        /\ lc_now[t] = 2 * LIVE_TTL_SEC
        /\ lc_symbol[t] = Some(symbol)
        /\ lc_ret[t] = Some(Val(lc_last_put[symbol]).data)

(***************************************************************************)
(* The live cache under concurrent calls (SpecCacheLock).                  *)
(***************************************************************************)
\* C25: whatever the interleaving of the _get_cached and _set_cached calls
\* for a symbol, a _get_cached call returns None or the data some
\* _set_cached call has written, with a time of writing no more than
\* LIVE_TTL_SEC before the now of the call; and the entry a _get_cached call
\* removes is the one it found expired, never one written since.
C25_CacheUnderConcurrency ==
    [][\A t \in Getters :
          /\ (ck_pc[t] \in {"locked", "evict"} /\ ck_pc'[t] = "release") =>
                (ck_ret'[t] # None =>
                    \E w \in ck_writes :
                       /\ ck_ret'[t] = Some(w.data)
                       /\ ck_now[t] - w.ts <= LIVE_TTL_SEC)
          /\ (ck_pc[t] = "evict" /\ ck_pc'[t] = "release") =>
                /\ ck_ret'[t] = None
                /\ \A s \in CachedSymbols :
                      ck_cache'[s] # ck_cache[s] =>
                          ck_cache[s] = ck_entry[t] /\ ck_cache'[s] = None]_vars

\* a _get_cached call has removed the expired entry it found while a
\* _set_cached call was waiting for the lock
C25_Witness ==
    \E t \in Getters :
        /\ ck_pc[t] = "release"
        /\ ck_lock = Some(t)
        /\ ck_entry[t] # None
        /\ ck_ret[t] = None
        /\ \A s \in CachedSymbols : ck_cache[s] = None
        /\ ck_pc[Putter] = "acquire"

(***************************************************************************)
(* The volume of the rows written (Spec).                                  *)
(***************************************************************************)
\* the rows of symbol in db
StoredRowsOf(db, symbol) ==
    {r \in BagToSet(db.stock_prices) :
        \E s \in db.stocks : s.symbol = symbol /\ s.id = r.stock_id}

\* C26: when _store_history or store_stock_data stores a fetched frame, a
\* row of the frame that is written (its day was not stored, and it is the
\* first row of the frame for that day) is stored with volume 0 if its
\* Volume is NaN and with its Volume otherwise, and with the frame's prices.
C26_MissingVolumeIsZero ==
    pc = "idle" =>
        \A sym \in Symbols, df \in DataFrames :
            \A after \in {StoreHistory(DB, sym, sym, Some(df)),
                          StoreStockData(DB, sym, CompanyName(sym), Some(df))} :
                \A i \in 1..Len(df) :
                    (/\ \A r \in StoredRowsOf(DB, sym) : r.date # df[i].date
                     /\ \A j \in 1..(i - 1) : df[j].date # df[i].date)
                    => \E r \in StoredRowsOf(after, sym) :
                          /\ r.date = df[i].date
                          /\ r.close = df[i].Close /\ r.open = df[i].Open
                          /\ r.volume = IF df[i].Volume = NaN THEN 0
                                        ELSE Val(df[i].Volume)

\* a refresh has stored a fetched row without Volume: the row of that day
\* has volume 0
C26_Witness ==
    /\ RefreshAnswered
    /\ resp.stored # None
    /\ \E i \in 1..Len(Val(resp.stored)) :
          LET row == Val(resp.stored)[i] IN
          /\ row.Volume = NaN
          /\ \E r \in StoredRowsOf(DB, Upper(req.symbol)) :
                r.date = row.date /\ r.close = row.Close /\ r.volume = 0

(***************************************************************************)
(* What GET /api/stocks/{term} shows of the store (Spec).                  *)
(***************************************************************************)
\* C27: the prices list of an answer of GET /api/stocks/{term} holds dates
\* of today or earlier only, at most QUERY_LIMIT of them, each later than
\* the next, whatever rows the store holds.
C27_NoFutureData ==
    (GetStockAnswered /\ resp.body # None) =>
        LET P == Val(resp.body).prices IN
        /\ Len(P) <= QUERY_LIMIT
        /\ \A i \in 1..Len(P) :
              IsDateText(P[i].date) /\ DateOfText(P[i].date) <= today
        /\ \A i \in 1..(Len(P) - 1) :
              DateOfText(P[i].date) > DateOfText(P[i + 1].date)

\* an answer showed a row of the stock it serves, which has a row dated
\* after today as well
C27_Witness ==
    /\ GetStockAnswered /\ resp.body # None
    /\ Len(Val(resp.body).prices) > 0
    /\ \E r \in StoredRowsOf(DB, Val(resp.body).symbol) : r.date > today

\* C28: in an answer of GET /api/stocks/{term} that carries live_info and a
\* non-empty prices list, currentPrice, dayHigh and dayLow are the close,
\* high and low of the first element of prices.
C28_LiveAgreesWithHistory ==
    (/\ GetStockAnswered /\ resp.body # None
     /\ Val(resp.body).live_info # None
     /\ Len(Val(resp.body).prices) > 0) =>
        LET first == Val(resp.body).prices[1]
            live  == Val(Val(resp.body).live_info) IN
        /\ live.currentPrice = Some(first.close)
        /\ live.dayHigh = Some(first.high)
        /\ live.dayLow = Some(first.low)

(***************************************************************************)
(* The Symbol record across a refresh (Spec).                              *)
(***************************************************************************)
\* the stocks rows of a symbol
SymbolRecords(tbl, symbol) == {s \in tbl : s.symbol = symbol}

\* C29: a refresh_symbol call for a symbol the stocks table already lists
\* leaves exactly one stocks row for that symbol, and that row, company_name
\* included, is the row that was there before the call.
C29_SymbolRecordKept ==
    [][(/\ pc = "handling" /\ req.op = "refresh_symbol"
        /\ pc' = "responded"
        /\ SymbolRecords(stocks, Upper(req.symbol)) # {})
       => /\ Cardinality(SymbolRecords(stocks', Upper(req.symbol))) = 1
          /\ SymbolRecords(stocks', Upper(req.symbol))
                 = SymbolRecords(stocks, Upper(req.symbol))]_vars

(***************************************************************************)
(* POST /internal/refresh (SpecBatch).                                     *)
(***************************************************************************)
\* the elements of a list
Elements(seq) == {seq[i] : i \in 1..Len(seq)}

\* a POST /internal/refresh has just been answered with its dict
BatchAnswered ==
    ir_pc = "responded" /\ ir_resp # None /\ Val(ir_resp).status = 200

\* C30: when POST /internal/refresh answers, refresh_symbol was called once
\* per requested symbol in request order, also after a call that raised;
\* each requested symbol is in exactly one of updated and failed, in updated
\* exactly when its entry of results has updated true; every requested
\* symbol has an entry in results; success_count + fail_count is the number
\* of requested symbols.
C30_BatchAccounting ==
    BatchAnswered =>
        LET body == Val(Val(ir_resp).body) IN
        /\ ir_calls = ir_symbols
        /\ \A i \in 1..Len(ir_symbols) :
             LET sym == Upper(ir_symbols[i]) IN
             /\ sym \in DOMAIN body.results
             /\ (sym \in Elements(body.updated)) # (sym \in Elements(body.failed))
             /\ (sym \in Elements(body.updated)) <=> body.results[sym].updated
        /\ body.success_count + body.fail_count = Len(ir_symbols)

(***************************************************************************)
(* The secret of the internal endpoints (SpecInternal).                    *)
(***************************************************************************)
\* the request being served came with a secret other than REFRESH_SECRET
WrongSecret == in_pc # "idle" /\ in_req.secret # Some(REFRESH_SECRET)

\* C31: a request to any internal endpoint whose secret differs from
\* REFRESH_SECRET is answered 401 and nothing else: while it is served no
\* store query, fetch (each of which passes the rate limiter) or store write
\* is made for it, no background task is added, no loop is started, and the
\* store is left as it was.
C31_UnauthorizedHasNoEffect ==
    /\ [](WrongSecret =>
            /\ in_pc \in {"check", "responded"}
            /\ in_pc = "responded" => Val(in_resp).status = 401
            /\ in_log = <<>> /\ in_tasks = <<>>
            /\ in_queue = <<>> /\ in_acc = NoAcc)
    /\ [][WrongSecret =>
            /\ stocks' = stocks /\ stock_prices' = stock_prices
            /\ in_pc' \in {"check", "responded", "idle"}]_vars

\* a wrong secret was turned away from the full refresh while the store
\* lists a symbol with prices
C31_Witness ==
    /\ in_pc = "responded"
    /\ in_req.endpoint = "refresh-all"
    /\ in_req.secret = Some("guess")
    /\ Val(in_resp).status = 401
    /\ stock_prices # EmptyBag

=============================================================================
